---------------------------- MODULE Spec2Model ----------------------------
(***************************************************************************)
(* A model of the PLMXML ingestion pipeline of src/core/parser.py:         *)
(* the streaming element reader (PLMXMLParser.parse and its two handlers)  *)
(* and the hierarchy builder (_build_hierarchy_and_link_data and the       *)
(* recursive _build_sub_occurrences), over the records of                  *)
(* src/core/models.py.                                                     *)
(*                                                                         *)
(* Strings are TLA+ strings; Python's None is the value None below.        *)
(* A Python object reference to a record of an identifier-keyed table is   *)
(* the record's key: the reader keeps, per element type, only the object   *)
(* created last, and that object is the one its table holds under its id,  *)
(* so the key names the object exactly.  The builder works on the table's  *)
(* objects in place (new_occ = occurrence), so a resolved node is the      *)
(* table's record and a list of resolved nodes is a list of keys.          *)
(***************************************************************************)
EXTENDS Naturals, Sequences, FiniteSets, TLC

VARIABLES
    doc,        \* the event sequence lxml's iterparse yields for the file,
                \* ended by an error event where the parser raises, or the
                \* marker of a file that does not exist
    pos,        \* index into doc of the next event of the for loop
    data,       \* self.data: ParsedPLMXMLData
    ctx,        \* self._current_context
    log,        \* the diagnostics printed so far
    pc,         \* "stream", "build" or "done"
    pvI,        \* builder: index of the ProductView of the outer loop
    rootI,      \* builder: index into root_ids of the inner loop
    root_occs,  \* builder: the list root_occs of the current ProductView
    stack,      \* builder: the active calls of _build_sub_occurrences
    result,     \* what parse returns: "pending", "data" or None
    shown       \* what the caller of parse_plmxml made of the result

vars == <<doc, pos, data, ctx, log, pc, pvI, rootI, root_occs, stack, result,
          shown>>

---------------------------------------------------------------------------
(* Values *)

\* Python's None: distinct from every attribute string of the documents.
None == "<None>"

PLMXML_NS == "http://www.plmxml.org/Schemas/PLMXMLSchema"

\* Python truthiness of an Optional[str]: neither None nor "".
Truthy(s) == s # None /\ s # ""

\* dict.get(key) on an attribute mapping: None when the attribute is absent.
Get(attrib, key) == IF key \in DOMAIN attrib THEN attrib[key] ELSE None

\* dict.get(key, default)
GetOr(attrib, key, default) == IF key \in DOMAIN attrib THEN attrib[key] ELSE default

\* d[key] = value on a dict: the key is added or its value replaced.
Put(d, key, value) ==
    [k \in (DOMAIN d) \cup {key} |-> IF k = key THEN value ELSE d[k]]

\* del d[key]
Del(d, key) == [k \in (DOMAIN d) \ {key} |-> d[k]]

\* The empty dict.
EmptyDict == [k \in {} |-> None]

\* The characters str.split() separates on.
Whitespace == {" ", "\t", "\n"}

\* _strip_hash leaving the marker in place.
StripHashPlain(ref) == ref

\* _strip_hash: one leading '#' removed; None and "" stay as they are.
strip_hash(ref) ==
    IF Truthy(ref) /\ Head(ref) = "#" THEN Tail(ref) ELSE ref

RECURSIVE SplitWs(_, _, _)
\* str.split(): the maximal runs of non-whitespace characters of s, in order.
SplitWs(s, cur, acc) ==
    IF s = ""
    THEN IF cur = "" THEN acc ELSE Append(acc, cur)
    ELSE IF Head(s) \in Whitespace
         THEN SplitWs(Tail(s), "", IF cur = "" THEN acc ELSE Append(acc, cur))
         ELSE SplitWs(Tail(s), cur \o Head(s), acc)

\* _split_refs keeping the tokens as they are written.
SplitRefsUnstripped(refs_str) ==
    IF ~Truthy(refs_str) THEN <<>> ELSE SplitWs(refs_str, "", <<>>)

\* _split_refs: [] for None and "", else the tokens, each through _strip_hash.
split_refs(refs_str) ==
    IF ~Truthy(refs_str)
    THEN <<>>
    ELSE LET toks == SplitWs(refs_str, "", <<>>)
         IN  [i \in 1..Len(toks) |-> strip_hash(toks[i])]

---------------------------------------------------------------------------
(* Records of src/core/models.py, as the handlers construct them *)

\* NewOccurrence keeping the id in the form references to it are written in.
NewOccurrenceRefId(id, attrib) ==
    [id |-> "#" \o id,
     instancedRef |-> strip_hash(Get(attrib, "instancedRef")),
     associatedAttachmentRefs |-> split_refs(Get(attrib, "associatedAttachmentRefs")),
     occurrenceRefIDs |-> split_refs(Get(attrib, "occurrenceRefs")),
     sequenceNumber |-> None,
     quantity |-> None,
     userAttributes |-> EmptyDict,
     displayName |-> None,
     name |-> None,
     subType |-> None,
     revision |-> None,
     lastModDate |-> None,
     productId |-> None,
     attachment_details |-> <<>>,
     subOccurrences |-> <<>>]

NewOccurrence(id, attrib) ==
    [id |-> id,
     instancedRef |-> strip_hash(Get(attrib, "instancedRef")),
     associatedAttachmentRefs |-> split_refs(Get(attrib, "associatedAttachmentRefs")),
     occurrenceRefIDs |-> split_refs(Get(attrib, "occurrenceRefs")),
     sequenceNumber |-> None,
     quantity |-> None,
     userAttributes |-> EmptyDict,
     displayName |-> None,
     name |-> None,
     subType |-> None,
     revision |-> None,
     lastModDate |-> None,
     productId |-> None,
     attachment_details |-> <<>>,
     subOccurrences |-> <<>>]

NewProductView(id, attrib) ==
    [id |-> id,
     ruleRefs |-> split_refs(Get(attrib, "ruleRefs")),
     primaryOccurrenceRef |-> strip_hash(Get(attrib, "primaryOccurrenceRef")),
     rootRefs |-> split_refs(Get(attrib, "rootRefs")),
     occurrences |-> <<>>]

NewProduct(id, attrib) ==
    [id |-> id,
     productId |-> Get(attrib, "productId"),
     name |-> Get(attrib, "name"),
     subType |-> Get(attrib, "subType"),
     uid |-> None]

NewProductRevision(id, attrib) ==
    [id |-> id,
     name |-> Get(attrib, "name"),
     subType |-> Get(attrib, "subType"),
     revision |-> Get(attrib, "revision"),
     masterRef |-> strip_hash(Get(attrib, "masterRef")),
     objectString |-> None,
     lastModDate |-> None,
     associatedAttachmentRefs |-> <<>>,
     revisionUid |-> None,
     userAttributes |-> EmptyDict]

NewAssociatedAttachment(id, attrib) ==
    [id |-> id,
     attachmentRef |-> strip_hash(Get(attrib, "attachmentRef")),
     role |-> Get(attrib, "role")]

NewForm(id, attrib) ==
    [id |-> id,
     name |-> Get(attrib, "name"),
     subType |-> Get(attrib, "subType"),
     subClass |-> Get(attrib, "subClass"),
     uid |-> None,
     userAttributes |-> EmptyDict]

NewDataSet(id, attrib) ==
    [id |-> id,
     name |-> Get(attrib, "name"),
     type |-> Get(attrib, "type"),
     version |-> Get(attrib, "version"),
     memberRefs |-> split_refs(Get(attrib, "memberRefs")),
     uid |-> None]

\* Path.joinpath(location_ref): an absolute location replaces the directory.
\* (resolve()'s normalisation of the joined path is not modelled.)
JoinPath(dir, location_ref) ==
    IF Head(location_ref) = "/" THEN location_ref ELSE dir \o "/" \o location_ref

NewExternalFile(id, attrib, dir) ==
    LET location_ref == Get(attrib, "locationRef")
    IN  [id |-> id,
         format |-> Get(attrib, "format"),
         locationRef |-> location_ref,
         fullPath |-> IF Truthy(location_ref) THEN JoinPath(dir, location_ref) ELSE None]

NewSite(id, attrib) ==
    [id |-> id, name |-> Get(attrib, "name"), siteId |-> Get(attrib, "siteId")]

NewRevisionRule(id, attrib) ==
    [id |-> id, name |-> Get(attrib, "name")]

NewTransferContext(id, attrib) ==
    [id |-> id, transferContext |-> Get(attrib, "transferContext")]

NewGeneralInfo(schema_version, attrib) ==
    [id |-> schema_version,
     author |-> Get(attrib, "author"),
     date |-> Get(attrib, "date"),
     time |-> Get(attrib, "time")]

\* ParsedPLMXMLData(plmxml_directory = ...): every table empty.
\* generalInfoKeys is the order of the keys of the dict generalInfo, the
\* order of their first insertion, which iter(generalInfo.values()) follows.
NewParsedData(dir) ==
    [productViews |-> <<>>,
     revisionRules |-> EmptyDict,
     generalInfo |-> EmptyDict,
     generalInfoKeys |-> <<>>,
     sites |-> EmptyDict,
     transferContexts |-> EmptyDict,
     productRevisions |-> EmptyDict,
     products |-> EmptyDict,
     occurrences |-> EmptyDict,
     associatedAttachments |-> EmptyDict,
     forms |-> EmptyDict,
     dataSets |-> EmptyDict,
     externalFiles |-> EmptyDict,
     plmxml_directory |-> dir]

---------------------------------------------------------------------------
(* The stream reader.  A reader state st is [data, ctx, log]. *)

\* Store keeping the record an id already has.
StoreKeepFirst(d, table, elem_id, rec) ==
    IF elem_id \in DOMAIN d[table]
    THEN d
    ELSE [d EXCEPT ![table] = Put(d[table], elem_id, rec)]

\* Store into a table emptied first.
StoreAlone(d, table, elem_id, rec) ==
    [d EXCEPT ![table] = Put(EmptyDict, elem_id, rec)]

\* self.data.<table>[elem_id] = rec: a later record replaces an earlier one.
Store(d, table, elem_id, rec) ==
    [d EXCEPT ![table] = Put(d[table], elem_id, rec)]

\* StoreOpen remembering the record under its id.
StoreOpenUnderId(st, table, key, elem_id, rec) ==
    [st EXCEPT !.data = Store(st.data, table, elem_id, rec),
               !.ctx = Put(st.ctx, elem_id, elem_id)]

\* The record stored in a table and remembered as the open element of its type.
StoreOpen(st, table, key, elem_id, rec) ==
    [st EXCEPT !.data = Store(st.data, table, elem_id, rec),
               !.ctx = Put(st.ctx, key, elem_id)]

\* A field of the record the context holds for an element type is assigned.
SetField(st, table, key, fld, value) ==
    [st EXCEPT !.data[table][st.ctx[key]][fld] = value]

\* record.userAttributes[title] = value
SetUserAttribute(st, table, key, title, value) ==
    [st EXCEPT !.data[table][st.ctx[key]].userAttributes =
                   Put(st.data[table][st.ctx[key]].userAttributes, title, value)]

\* The UserData branch: the flag is set for type "AttributesInContext".
user_data(st, attrib) ==
    IF Get(attrib, "type") = "AttributesInContext"
    THEN [st EXCEPT !.ctx = Put(st.ctx, "in_AttributesInContext", "True")]
    ELSE st

\* Lines 237-260: the value goes to the first match of Occurrence (inside
\* the flag), ProductRevision, Form.
route_value(st, title, value) ==
    IF "in_AttributesInContext" \in DOMAIN st.ctx
       /\ "Occurrence" \in DOMAIN st.ctx
    THEN IF title = "SequenceNumber"
         THEN SetField(st, "occurrences", "Occurrence", "sequenceNumber", value)
         ELSE IF title = "Quantity"
         THEN SetField(st, "occurrences", "Occurrence", "quantity", value)
         ELSE SetUserAttribute(st, "occurrences", "Occurrence", title, value)
    ELSE IF "ProductRevision" \in DOMAIN st.ctx
    THEN IF title = "object_string"
         THEN SetField(st, "productRevisions", "ProductRevision", "objectString", value)
         ELSE IF title = "last_mod_date"
         THEN SetField(st, "productRevisions", "ProductRevision", "lastModDate", value)
         ELSE SetUserAttribute(st, "productRevisions", "ProductRevision", title, value)
    ELSE IF "Form" \in DOMAIN st.ctx
    THEN SetUserAttribute(st, "forms", "Form", title, value)
    ELSE st

\* user_value dropping the empty value as well.
UserValueDropsEmpty(st, attrib) ==
    LET title == Get(attrib, "title")
        value == Get(attrib, "value")
    IN  IF ~Truthy(title) \/ ~Truthy(value)
        THEN st
        ELSE route_value(st, title, value)

\* The UserValue branch: an element without a title or without a value is
\* skipped (line 235), any other is routed.
user_value(st, attrib) ==
    LET title == Get(attrib, "title")
        value == Get(attrib, "value")
    IN  IF ~Truthy(title) \/ value = None
        THEN st
        ELSE route_value(st, title, value)

\* The ApplicationRef branch: version to the open ProductRevision, label to
\* the first open one of Product, DataSet, Form.
application_ref(st, attrib) ==
    LET version == Get(attrib, "version")
        label == Get(attrib, "label")
        st1 == IF Truthy(version) /\ "ProductRevision" \in DOMAIN st.ctx
               THEN SetField(st, "productRevisions", "ProductRevision", "revisionUid", version)
               ELSE st
    IN  IF ~Truthy(label)
        THEN st1
        ELSE IF "Product" \in DOMAIN st1.ctx
        THEN SetField(st1, "products", "Product", "uid", label)
        ELSE IF "DataSet" \in DOMAIN st1.ctx
        THEN SetField(st1, "dataSets", "DataSet", "uid", label)
        ELSE IF "Form" \in DOMAIN st1.ctx
        THEN SetField(st1, "forms", "Form", "uid", label)
        ELSE st1

RECURSIVE AppendViewKeyed(_, _)
\* append_view replacing the descriptor of the same id, if there is one.
AppendViewKeyed(views, pv) ==
    IF views = <<>>
    THEN <<pv>>
    ELSE IF Head(views).id = pv.id
    THEN <<pv>> \o Tail(views)
    ELSE <<Head(views)>> \o AppendViewKeyed(Tail(views), pv)

\* Line 131: self.data.productViews.append(pv)
append_view(views, pv) == Append(views, pv)

\* _handle_start_element
handle_start_element(st, tag_name, tag_ns, attrib) ==
    LET elem_id == Get(attrib, "id")
        has_id == Truthy(elem_id)
    IN  IF tag_ns # PLMXML_NS
        THEN st
        ELSE IF tag_name = "PLMXML"
        THEN LET schema_version == GetOr(attrib, "schemaVersion", "unknown")
                 st1 == StoreOpen(st, "generalInfo", "PLMXML", schema_version,
                                  NewGeneralInfo(schema_version, attrib))
             IN  IF schema_version \in DOMAIN st.data.generalInfo
                 THEN st1
                 ELSE [st1 EXCEPT !.data.generalInfoKeys = Append(@, schema_version)]
        ELSE IF tag_name = "Header" /\ has_id
        THEN StoreOpen(st, "transferContexts", "Header", elem_id,
                       NewTransferContext(elem_id, attrib))
        ELSE IF tag_name = "Site" /\ has_id
        THEN StoreOpen(st, "sites", "Site", elem_id, NewSite(elem_id, attrib))
        ELSE IF tag_name = "ProductView" /\ has_id
        THEN [st EXCEPT !.data.productViews =
                            append_view(st.data.productViews,
                                        NewProductView(elem_id, attrib)),
                        !.ctx = Put(st.ctx, "ProductView", Len(st.data.productViews) + 1)]
        ELSE IF tag_name = "Occurrence" /\ has_id
        THEN StoreOpen(st, "occurrences", "Occurrence", elem_id,
                       NewOccurrence(elem_id, attrib))
        ELSE IF tag_name = "Product" /\ has_id
        THEN StoreOpen(st, "products", "Product", elem_id, NewProduct(elem_id, attrib))
        ELSE IF tag_name = "ProductRevision" /\ has_id
        THEN StoreOpen(st, "productRevisions", "ProductRevision", elem_id,
                       NewProductRevision(elem_id, attrib))
        ELSE IF tag_name = "RevisionRule" /\ has_id
        THEN [st EXCEPT !.data = Store(st.data, "revisionRules", elem_id,
                                       NewRevisionRule(elem_id, attrib))]
        ELSE IF tag_name = "AssociatedAttachment" /\ has_id
        THEN [st EXCEPT !.data = Store(st.data, "associatedAttachments", elem_id,
                                       NewAssociatedAttachment(elem_id, attrib))]
        ELSE IF tag_name = "Form" /\ has_id
        THEN StoreOpen(st, "forms", "Form", elem_id, NewForm(elem_id, attrib))
        ELSE IF tag_name = "DataSet" /\ has_id
        THEN StoreOpen(st, "dataSets", "DataSet", elem_id, NewDataSet(elem_id, attrib))
        ELSE IF tag_name = "ExternalFile" /\ has_id
        THEN [st EXCEPT !.data = Store(st.data, "externalFiles", elem_id,
                                       NewExternalFile(elem_id, attrib,
                                                       st.data.plmxml_directory))]
        ELSE IF tag_name = "UserData"
        THEN user_data(st, attrib)
        ELSE IF tag_name = "UserValue"
        THEN user_value(st, attrib)
        ELSE IF tag_name = "ApplicationRef"
        THEN application_ref(st, attrib)
        ELSE st

\* _handle_end_element: the context entry of the tag name is deleted (never
\* the root's), and the close of any UserData clears the flag.
handle_end_element(st, tag_name) ==
    LET c1 == IF tag_name \in DOMAIN st.ctx /\ tag_name # "PLMXML"
              THEN Del(st.ctx, tag_name)
              ELSE st.ctx
        c2 == IF tag_name = "UserData"
              THEN Del(c1, "in_AttributesInContext")
              ELSE c1
    IN  [st EXCEPT !.ctx = c2]

---------------------------------------------------------------------------
(* The hierarchy builder *)

\* The depth of nested _build_sub_occurrences calls at which the interpreter
\* raises RecursionError.  It exceeds the number of occurrence identifiers of
\* every document below, so only a cyclic reference graph reaches it.
RecursionLimit == 4

\* root_ids with the primary reference preferred over the root list.
RootIdsPrimaryFirst(pv) ==
    IF Truthy(pv.primaryOccurrenceRef)
    THEN <<pv.primaryOccurrenceRef>>
    ELSE pv.rootRefs

\* Lines 313-315: rootRefs if non-empty, else [primaryOccurrenceRef] if set.
root_ids(pv) ==
    IF pv.rootRefs # <<>>
    THEN pv.rootRefs
    ELSE IF Truthy(pv.primaryOccurrenceRef)
         THEN <<pv.primaryOccurrenceRef>>
         ELSE <<>>

\* display_name with the operands of the or exchanged.
DisplayNameNameFirst(revision_data) ==
    IF Truthy(revision_data.name)
    THEN revision_data.name
    ELSE revision_data.objectString

\* Line 338: revision_data.objectString or revision_data.name
display_name(revision_data) ==
    IF Truthy(revision_data.objectString)
    THEN revision_data.objectString
    ELSE revision_data.name

\* attachment_detail without the test that the target is a DataSet.
AttachmentDetailAnyTarget(d, attachment) ==
    IF Truthy(attachment.attachmentRef)
    THEN <<[role |-> attachment.role, dataSetId |-> attachment.attachmentRef]>>
    ELSE <<>>

\* Lines 352-357: the detail of one AssociatedAttachment, kept only when its
\* attachmentRef is a key of dataSets.
attachment_detail(d, attachment) ==
    IF Truthy(attachment.attachmentRef) /\ attachment.attachmentRef \in DOMAIN d.dataSets
    THEN <<[role |-> attachment.role, dataSetId |-> attachment.attachmentRef]>>
    ELSE <<>>

RECURSIVE attachment_loop(_, _, _, _)
\* Lines 346-359: the loop over occurrence.associatedAttachmentRefs from
\* index i on; r is [details, log].
attachment_loop(d, occ, revision_data, i) ==
    IF i > Len(occ.associatedAttachmentRefs)
    THEN [details |-> <<>>, log |-> <<>>]
    ELSE LET att_id == occ.associatedAttachmentRefs[i]
             rest == attachment_loop(d, occ, revision_data, i + 1)
         IN  IF att_id \in DOMAIN d.associatedAttachments
             THEN [rest EXCEPT !.details =
                       attachment_detail(d, d.associatedAttachments[att_id]) \o @]
             ELSE [rest EXCEPT !.log =
                       <<<<"AssociatedAttachmentNotFound", att_id, revision_data.id>>>> \o @]

\* link_product writing the master reference as the code of a missing Product.
LinkProductFabricated(d, occ, revision_data) ==
    IF Truthy(revision_data.masterRef) /\ revision_data.masterRef \in DOMAIN d.products
    THEN [occ EXCEPT !.productId = d.products[revision_data.masterRef].productId]
    ELSE [occ EXCEPT !.productId = revision_data.masterRef]

\* link_product falling back to some Product of the table when the master
\* reference names none.
LinkProductAny(d, occ, revision_data) ==
    IF Truthy(revision_data.masterRef) /\ revision_data.masterRef \in DOMAIN d.products
    THEN [occ EXCEPT !.productId = d.products[revision_data.masterRef].productId]
    ELSE IF DOMAIN d.products # {}
    THEN [occ EXCEPT !.productId =
              d.products[CHOOSE p \in DOMAIN d.products : TRUE].productId]
    ELSE occ

\* Lines 362-365: the product code of the revision's Product, when masterRef
\* is a key of products.
link_product(d, occ, revision_data) ==
    IF Truthy(revision_data.masterRef) /\ revision_data.masterRef \in DOMAIN d.products
    THEN [occ EXCEPT !.productId = d.products[revision_data.masterRef].productId]
    ELSE occ

\* Lines 336-342: whether the occurrence's instancedRef names a revision.
revision_resolves(d, occ) ==
    Truthy(occ.instancedRef) /\ occ.instancedRef \in DOMAIN d.productRevisions

\* Lines 333-365: what a call of _build_sub_occurrences does to the
\* occurrence before its children loop; r is [data, log].
link_data(d, lg, occ_id) ==
    LET occ == d.occurrences[occ_id]
    IN  IF revision_resolves(d, occ)
        THEN LET revision_data == d.productRevisions[occ.instancedRef]
                 atts == attachment_loop(d, occ, revision_data, 1)
                 occ1 == [occ EXCEPT !.displayName = display_name(revision_data),
                                     !.name = revision_data.name,
                                     !.subType = revision_data.subType,
                                     !.revision = revision_data.revision,
                                     !.lastModDate = revision_data.lastModDate,
                                     !.attachment_details = atts.details]
             IN  [data |-> [d EXCEPT !.occurrences[occ_id] =
                                         link_product(d, occ1, revision_data)],
                  log |-> lg \o atts.log]
        ELSE [data |-> d, log |-> lg]

\* occurrence_known with the guard dropped.
OccurrenceKnownAlways(d, occ_id) == TRUE

\* append_built keeping a node already in the list only once.
AppendBuiltOnce(nodes, built) ==
    IF \E i \in 1..Len(nodes) : nodes[i] = built THEN nodes ELSE Append(nodes, built)

\* Lines 319 and 370: the guard of a lookup in the occurrences table.
occurrence_known(d, occ_id) == occ_id \in DOMAIN d.occurrences

\* Lines 322 and 373: the built node is appended to the list being filled.
append_built(nodes, built) == Append(nodes, built)

\* failure answering with the tables filled so far.
FailureWithTables(tables) == "data"

\* Lines 80 and 83: what parse returns from its except clauses, whatever
\* the tables hold by then.
failure(tables) == None

\* A frame of _build_sub_occurrences at the head of its children loop.
Frame(occ_id) == [occ |-> occ_id, i |-> 1, children |-> <<>>]

\* The call _build_sub_occurrences(self.data.occurrences[occ_id]): the frame
\* is pushed and lines 333-365 run.  The lookup raises KeyError for an id the
\* table does not hold and the call raises RecursionError at the
\* interpreter's limit; parse catches either (line 81) and answers None.
Call(occ_id) ==
    IF occ_id \notin DOMAIN data.occurrences
    THEN /\ pc' = "done"
         /\ result' = failure(data)
         /\ log' = Append(log, <<"UnexpectedError", "KeyError">>)
         /\ UNCHANGED <<data, stack>>
    ELSE IF Len(stack) >= RecursionLimit
    THEN /\ pc' = "done"
         /\ result' = failure(data)
         /\ log' = Append(log, <<"UnexpectedError", "RecursionError">>)
         /\ UNCHANGED <<data, stack>>
    ELSE LET r == link_data(data, log, occ_id)
         IN  /\ data' = r.data
             /\ log' = r.log
             /\ stack' = <<Frame(occ_id)>> \o stack
             /\ UNCHANGED <<pc, result>>

\* stream_finished as soon as one event has been handled.
StreamFinishedEarly(events, p) == p > 1

\* Line 50: the for loop has taken every event of the document.
stream_finished(events, p) == p > Len(events)

\* Lines 74-75: the for loop over the events is over and
\* _build_hierarchy_and_link_data starts.
StartBuild ==
    /\ pc = "stream"
    /\ stream_finished(doc, pos)
    /\ pc' = "build"
    /\ pvI' = 1
    /\ rootI' = 1
    /\ root_occs' = <<>>
    /\ stack' = <<>>
    /\ UNCHANGED <<doc, pos, data, ctx, log, result, shown>>

\* Lines 312-326 and 76: one step of the loops over the product views and
\* their root ids, taken while no _build_sub_occurrences call is active.
BuildRoots ==
    /\ pc = "build"
    /\ stack = <<>>
    /\ IF pvI > Len(data.productViews)
       THEN /\ pc' = "done"
            /\ result' = "data"
            /\ UNCHANGED <<data, log, pvI, rootI, root_occs, stack>>
       ELSE LET pv == data.productViews[pvI]
                ids == root_ids(pv)
            IN  IF rootI > Len(ids)
                THEN /\ data' = [data EXCEPT !.productViews[pvI].occurrences = root_occs]
                     /\ pvI' = pvI + 1
                     /\ rootI' = 1
                     /\ root_occs' = <<>>
                     /\ UNCHANGED <<log, pc, result, stack>>
                ELSE IF occurrence_known(data, ids[rootI])
                THEN /\ Call(ids[rootI])
                     /\ UNCHANGED <<pvI, rootI, root_occs>>
                ELSE /\ log' = Append(log, <<"RootNotFound", ids[rootI], pv.id>>)
                     /\ rootI' = rootI + 1
                     /\ UNCHANGED <<data, pc, result, pvI, root_occs, stack>>
    /\ UNCHANGED <<doc, pos, ctx, shown>>

\* Lines 367-378 and 322: one step of the innermost active call: the next
\* child reference is resolved, or the call returns its node to its caller.
BuildSub ==
    /\ pc = "build"
    /\ stack # <<>>
    /\ LET f == Head(stack)
           refs == data.occurrences[f.occ].occurrenceRefIDs
       IN  IF f.i > Len(refs)
           THEN /\ data' = [data EXCEPT !.occurrences[f.occ].subOccurrences = f.children]
                /\ IF Len(stack) > 1
                   THEN /\ stack' = <<[stack[2] EXCEPT !.children = append_built(@, f.occ),
                                                      !.i = @ + 1]>>
                                    \o SubSeq(stack, 3, Len(stack))
                        /\ UNCHANGED <<rootI, root_occs>>
                   ELSE /\ stack' = <<>>
                        /\ root_occs' = append_built(root_occs, f.occ)
                        /\ rootI' = rootI + 1
                /\ UNCHANGED <<log, pc, result>>
           ELSE IF occurrence_known(data, refs[f.i])
           THEN /\ Call(refs[f.i])
                /\ UNCHANGED <<rootI, root_occs>>
           ELSE /\ log' = Append(log, <<"ChildNotFound", refs[f.i], f.occ>>)
                /\ stack' = <<[f EXCEPT !.i = @ + 1]>> \o Tail(stack)
                /\ UNCHANGED <<data, pc, result, rootI, root_occs>>
    /\ UNCHANGED <<doc, pos, ctx, pvI, shown>>

---------------------------------------------------------------------------
(* The streaming pass of parse *)

\* Lines 50-70: the body of the for loop for one event.
loop_body(st, ev) ==
    IF ev.tag = None
    THEN st
    ELSE IF ev.kind = "start"
    THEN handle_start_element(st, ev.tag, ev.ns, ev.attrib)
    ELSE handle_end_element(st, ev.tag)

\* The loop takes the next event, a start event.
StartEvent ==
    /\ pc = "stream"
    /\ pos <= Len(doc)
    /\ doc[pos].kind = "start"
    /\ LET st == loop_body([data |-> data, ctx |-> ctx, log |-> log], doc[pos])
       IN  /\ data' = st.data
           /\ ctx' = st.ctx
           /\ log' = st.log
    /\ pos' = pos + 1
    /\ UNCHANGED <<doc, pc, pvI, rootI, root_occs, stack, result, shown>>

\* The loop takes the next event, an end event.
EndEvent ==
    /\ pc = "stream"
    /\ pos <= Len(doc)
    /\ doc[pos].kind = "end"
    /\ LET st == loop_body([data |-> data, ctx |-> ctx, log |-> log], doc[pos])
       IN  /\ data' = st.data
           /\ ctx' = st.ctx
           /\ log' = st.log
    /\ pos' = pos + 1
    /\ UNCHANGED <<doc, pc, pvI, rootI, root_occs, stack, result, shown>>

\* Lines 78-80: iterparse raises XMLSyntaxError where the document's events
\* end in an error event; parse prints the error and returns None.
SyntaxError ==
    /\ pc = "stream"
    /\ pos <= Len(doc)
    /\ doc[pos].kind = "error"
    /\ log' = Append(log, <<"XMLSyntaxError">>)
    /\ pc' = "done"
    /\ result' = failure(data)
    /\ UNCHANGED <<doc, pos, data, ctx, pvI, rootI, root_occs, stack, shown>>

\* parse_plmxml, lines 393-395: the file does not exist, None is returned
\* and no parser runs.
FileNotFound ==
    /\ pc = "stream"
    /\ pos <= Len(doc)
    /\ doc[pos].kind = "missing"
    /\ log' = Append(log, <<"FileNotFound">>)
    /\ pc' = "done"
    /\ result' = failure(data)
    /\ UNCHANGED <<doc, pos, data, ctx, pvI, rootI, root_occs, stack, shown>>

---------------------------------------------------------------------------
(* The callers of parse_plmxml: the command-line export of src/main.py,    *)
(* the window of src/ui/main_window.py and parse_plmxml_header.            *)

\* Nothing has been made of the result yet.
NotShown == [by |-> "nobody"]

\* How an f-string prints an Optional[str].
Str(x) == IF x = None THEN "None" ELSE x

\* x or default, for an Optional[str] x.
Or(x, default) == IF Truthy(x) THEN x ELSE default

RECURSIVE Join(_, _)
\* sep.join(parts)
Join(parts, sep) ==
    IF parts = <<>> THEN ""
    ELSE IF Len(parts) = 1 THEN parts[1]
    ELSE parts[1] \o sep \o Join(Tail(parts), sep)

\* main.py lines 39-45: the entry of one member reference of a DataSet.
file_info(d, member_ref) ==
    IF member_ref \in DOMAIN d.externalFiles
    THEN LET ext_file == d.externalFiles[member_ref]
         IN  Or(ext_file.locationRef, "N/A") \o " (" \o Or(ext_file.format, "N/A") \o ")"
    ELSE "Ref: " \o member_ref \o " (Not Found)"

\* main.py lines 30-50: the text of one attachment detail.
dataset_detail(d, attach_detail) ==
    LET role == attach_detail.role
        ds_id == attach_detail.dataSetId
    IN  IF Truthy(ds_id) /\ ds_id \in DOMAIN d.dataSets
        THEN LET dataset == d.dataSets[ds_id]
                 file_info_parts == [i \in 1..Len(dataset.memberRefs) |->
                                        file_info(d, dataset.memberRefs[i])]
                 file_info_str == IF file_info_parts # <<>>
                                  THEN Join(file_info_parts, "; ")
                                  ELSE "No Files"
             IN  "Role: " \o Str(role) \o ", Type: " \o Or(dataset.type, "N/A")
                 \o ", Name: " \o Or(dataset.name, ds_id)
                 \o ", Files: [" \o file_info_str \o "]"
        ELSE "Role: " \o Str(role) \o ", DataSet ID: " \o Str(ds_id) \o " (Not Found)"

\* quantity shown as routed, the default for a missing value only.
QuantityAsRouted(occurrence) ==
    IF occurrence.quantity = None THEN "1" ELSE occurrence.quantity

\* main.py line 24, main_window.py lines 124 and 202: occurrence.quantity or "1"
quantity(occurrence) == Or(occurrence.quantity, "1")

\* main.py lines 20-63, main_window.py lines 118-162: the row written for
\* one occurrence.  The attributes cell joins the pairs of userAttributes in
\* the dict's order, which the model does not keep: the cell is the mapping.
\* details is dataset_details_list, the list the datasets cell is joined
\* from, and occ the occurrence of the row.
csv_row(d, occ_id, level) ==
    LET occurrence == d.occurrences[occ_id]
        dataset_details_list == [i \in 1..Len(occurrence.attachment_details) |->
                                    dataset_detail(d, occurrence.attachment_details[i])]
    IN  [occ |-> occ_id,
         level |-> level,
         node_type |-> IF occurrence.subOccurrences # <<>> THEN "Assembly" ELSE "Leaf",
         name |-> Or(occurrence.displayName,
                     Or(occurrence.name, Or(occurrence.id, "Occurrence"))),
         item_type |-> Or(occurrence.subType, "N/A"),
         revision |-> Or(occurrence.revision, "N/A"),
         quantity |-> quantity(occurrence),
         attributes |-> occurrence.userAttributes,
         details |-> dataset_details_list,
         datasets |-> Join(dataset_details_list, " | ")]

RECURSIVE write_csv_recursive(_, _, _)
RECURSIVE write_csv_list(_, _, _)
\* main.py lines 15-66: the rows of an occurrence and, below it, of its
\* resolved children.
write_csv_recursive(d, occ_id, level) ==
    <<csv_row(d, occ_id, level)>>
    \o write_csv_list(d, d.occurrences[occ_id].subOccurrences, level + 1)

\* The rows of a list of occurrences, one after the other.
write_csv_list(d, occs, level) ==
    IF occs = <<>> THEN <<>>
    ELSE write_csv_recursive(d, Head(occs), level)
         \o write_csv_list(d, Tail(occs), level)

\* main.py lines 68-118, run_cli_export: what the export reports and writes.
\* (A failure to write the output file is not modelled.)
run_cli_export(d, res, events) ==
    IF events[Len(events)].kind = "missing"
    THEN [by |-> "cli", outcome |-> "input_not_found", exit |-> 1, rows |-> <<>>]
    ELSE IF res = None
    THEN [by |-> "cli", outcome |-> "parse_error", exit |-> 1, rows |-> <<>>]
    ELSE IF d.productViews = <<>>
    THEN [by |-> "cli", outcome |-> "no_bom_data", exit |-> 0, rows |-> <<>>]
    ELSE [by |-> "cli", outcome |-> "exported", exit |-> 0,
          rows |-> write_csv_list(d, d.productViews[1].occurrences, 0)]

\* load_plmxml without the branch for a result that has no product view.
LoadWithoutNoDataBranch(d, res) ==
    IF res # None /\ d.productViews # <<>>
    THEN [by |-> "gui", outcome |-> "loaded",
          rows |-> write_csv_list(d, d.productViews[1].occurrences, 0),
          message |-> "Loaded"]
    ELSE [by |-> "gui", outcome |-> "parsing_error", rows |-> <<>>,
          message |-> "Could not parse the PLMXML file"]

\* main_window.py lines 169-252, load_plmxml and _populate_tree: the rows of
\* the tree and the message shown.  The cells of a row are those of the
\* export; the tree nests the rows where the export writes a level.
load_plmxml(d, res) ==
    IF res # None /\ d.productViews # <<>>
    THEN [by |-> "gui", outcome |-> "loaded",
          rows |-> write_csv_list(d, d.productViews[1].occurrences, 0),
          message |-> IF d.generalInfoKeys # <<>>
                      THEN LET header == d.generalInfo[d.generalInfoKeys[1]]
                           IN  "Loaded | Author: " \o Str(header.author)
                               \o " | Date: " \o Str(header.date)
                      ELSE "Loaded"]
    ELSE IF res # None
    THEN [by |-> "gui", outcome |-> "no_bom_data", rows |-> <<>>,
          message |-> "PLMXML file parsed, but no ProductView/BOM data found."]
    ELSE [by |-> "gui", outcome |-> "parsing_error", rows |-> <<>>,
          message |-> "Could not parse the PLMXML file"]

\* parser.py lines 403-430, parse_plmxml_header: the attributes of
\* next(iter(generalInfo.values())), {} without one, None after a failure.
parse_plmxml_header(d, res) ==
    IF res # None /\ d.generalInfoKeys # <<>>
    THEN LET first_general_info == d.generalInfo[d.generalInfoKeys[1]]
         IN  [by |-> "header", outcome |-> "header",
              value |-> [schemaVersion |-> first_general_info.id,
                         author |-> first_general_info.author,
                         date |-> first_general_info.date,
                         time |-> first_general_info.time]]
    ELSE IF res # None
    THEN [by |-> "header", outcome |-> "empty", value |-> EmptyDict]
    ELSE [by |-> "header", outcome |-> "no_result", value |-> EmptyDict]

\* parse_plmxml has returned to run_cli_export.
ExportCli ==
    /\ pc = "done"
    /\ shown = NotShown
    /\ shown' = run_cli_export(data, result, doc)
    /\ UNCHANGED <<doc, pos, data, ctx, log, pc, pvI, rootI, root_occs, stack, result>>

\* parse_plmxml has returned to MainWindow.load_plmxml.
LoadGui ==
    /\ pc = "done"
    /\ shown = NotShown
    /\ shown' = load_plmxml(data, result)
    /\ UNCHANGED <<doc, pos, data, ctx, log, pc, pvI, rootI, root_occs, stack, result>>

\* parse_plmxml has returned to parse_plmxml_header.
HeaderView ==
    /\ pc = "done"
    /\ shown = NotShown
    /\ shown' = parse_plmxml_header(data, result)
    /\ UNCHANGED <<doc, pos, data, ctx, log, pc, pvI, rootI, root_occs, stack, result>>

Next ==
    \/ StartEvent \/ EndEvent \/ SyntaxError \/ FileNotFound
    \/ StartBuild \/ BuildRoots \/ BuildSub
    \/ ExportCli \/ LoadGui \/ HeaderView

\* PLMXMLParser.__init__ for a file whose events are d.
InitWith(d) ==
    /\ doc = d
    /\ pos = 1
    /\ data = NewParsedData("/data")
    /\ ctx = EmptyDict
    /\ log = <<>>
    /\ pc = "stream"
    /\ pvI = 0
    /\ rootI = 0
    /\ root_occs = <<>>
    /\ stack = <<>>
    /\ result = "pending"
    /\ shown = NotShown

---------------------------------------------------------------------------
(* The documents: the event sequences iterparse yields, well nested *)

\* The longest reference list a document of the families below writes.
MaxRefs == 3

\* An attribute mapping from <<name, value>> pairs; a pair whose value is
\* None is an attribute the element does not carry.
Attribs(pairs) ==
    LET present == {i \in 1..Len(pairs) : pairs[i][2] # None}
    IN  [k \in {pairs[i][1] : i \in present} |->
            pairs[CHOOSE i \in present : pairs[i][1] = k][2]]

StartOf(tag, attrib) == [kind |-> "start", tag |-> tag, ns |-> PLMXML_NS, attrib |-> attrib]
EndOf(tag) == [kind |-> "end", tag |-> tag, ns |-> PLMXML_NS, attrib |-> EmptyDict]

\* The events of one element: its start, its children's events, its end.
Elem(tag, pairs, children) ==
    <<StartOf(tag, Attribs(pairs))>> \o children \o <<EndOf(tag)>>

\* The sequences over S of length at most n.
Lists(S, n) == UNION {[1..k -> S] : k \in 0..n}

RECURSIVE RefStr(_)
\* The reference list attribute naming ids: "#a #b".
RefStr(ids) ==
    IF ids = <<>> THEN ""
    ELSE IF Len(ids) = 1 THEN "#" \o ids[1]
    ELSE "#" \o ids[1] \o " " \o RefStr(Tail(ids))

\* A reference list attribute: absent, or a list over ids.
RefAttrs(ids) == {None} \cup {RefStr(l) : l \in Lists(ids, MaxRefs)}

Root(children) ==
    Elem("PLMXML", <<<<"schemaVersion", "6">>, <<"author", "Test User">>>>, children)

Occ(id, instancedRef, attRefs, occRefs, children) ==
    Elem("Occurrence", <<<<"id", id>>, <<"instancedRef", instancedRef>>,
                         <<"associatedAttachmentRefs", attRefs>>,
                         <<"occurrenceRefs", occRefs>>>>, children)

View(id, rootRefs, primary, children) ==
    Elem("ProductView", <<<<"id", id>>, <<"rootRefs", rootRefs>>,
                          <<"primaryOccurrenceRef", primary>>>>, children)

UserValue(title, value) ==
    Elem("UserValue", <<<<"title", title>>, <<"value", value>>>>, <<>>)

UserData(type, children) == Elem("UserData", <<<<"type", type>>>>, children)

\* Root resolution: one view whose rootRefs and primaryOccurrenceRef vary
\* over present and missing occurrences, and an optional second view.
RootsDocs ==
    {Root(View("pv1", r, p, occs) \o pv2) :
        r \in RefAttrs({"o1", "o2", "oX"}),
        p \in {None, "", "#o1", "o2", "#oX"},
        occs \in {Occ("o1", None, None, "#o2 #oY", <<>>) \o Occ("o2", None, None, None, <<>>),
                  Occ("o2", None, None, None, <<>>),
                  <<>>},
        pv2 \in {<<>>,
                 View("pv2", "#o2 #o1", "#oX", <<>>),
                 View("pv2", None, "#o2", <<>>)}}

\* Child resolution: the child lists of three occurrences vary over present,
\* repeated and missing ids, cycles included.
TreeDocs ==
    {Root(View("pv1", "#o1", None,
               Occ("o1", None, None, c1, <<>>) \o Occ("o2", None, None, c2, <<>>) \o o3)) :
        c1 \in RefAttrs({"o1", "o2", "o3", "oX"}),
        c2 \in {None, "#o3", "#o1", "#oX #o3"},
        o3 \in {<<>>, Occ("o3", None, None, "", <<>>), Occ("o3", None, None, "#o2", <<>>)}}

Rev(id, name, masterRef, children) ==
    Elem("ProductRevision", <<<<"id", id>>, <<"name", name>>, <<"subType", "Design">>,
                              <<"revision", "A">>, <<"masterRef", masterRef>>>>, children)

Prod(id, productId) ==
    Elem("Product", <<<<"id", id>>, <<"productId", productId>>, <<"name", "Part">>>>, <<>>)

\* Revision and product links: the occurrence's instancedRef, the revision's
\* name, display string and masterRef and the product's code vary; a second
\* occurrence instances a second revision of a second product, a third one a
\* revision that does not exist.
LinkDocs ==
    {Root(View("pv1", "#o1", None,
               Occ("o1", i, None, "#o2 #o3", <<>>) \o Occ("o2", "#r2", None, None, <<>>)
               \o Occ("o3", "#rX", None, None, <<>>))
          \o Rev("r1", n, m,
                 UserData("TC Specific Properties",
                          (IF os = None THEN <<>> ELSE UserValue("object_string", os))
                          \o UserValue("last_mod_date", "2025-01-01")))
          \o Rev("r2", "Part B", "#p2", <<>>)
          \o Prod("p1", c) \o Prod("p2", "P-002")) :
        i \in {None, "", "#r1", "#rX"},
        n \in {None, "Part A"},
        os \in {None, "", "PartA / A"},
        m \in {None, "#p1", "#pX"},
        c \in {None, "P-001"}}

Att(id, attachmentRef, role) ==
    Elem("AssociatedAttachment",
         <<<<"id", id>>, <<"attachmentRef", attachmentRef>>, <<"role", role>>>>, <<>>)

DataSet(id, name, memberRefs) ==
    Elem("DataSet", <<<<"id", id>>, <<"name", name>>, <<"type", "PDF">>,
                      <<"memberRefs", memberRefs>>>>, <<>>)

\* Attachment resolution: the occurrence's instancedRef and attachment list
\* vary, and the target of its first attachment over a DataSet, a missing id
\* and no target; a third attachment points to a Form.
AttachDocs ==
    {Root(View("pv1", "#o1", None, Occ("o1", i, a, None, <<>>))
          \o Rev("r1", "Part A", "#p1", <<>>) \o Prod("p1", "P-001")
          \o Att("a1", t, "Reference") \o Att("a2", "#d2", "Spec")
          \o Att("a3", "#f1", "Form")
          \o DataSet("d1", "Drawing", "#e1 #e2") \o DataSet("d2", "Model", None)
          \o Elem("Form", <<<<"id", "f1">>, <<"name", "Form 1">>>>, <<>>)
          \o Elem("ExternalFile", <<<<"id", "e1">>, <<"locationRef", "files/a.pdf">>,
                                    <<"format", "pdf">>>>, <<>>)) :
        i \in {None, "#r1", "#rX"},
        a \in RefAttrs({"a1", "a2", "a3", "aX"}),
        t \in {None, "#d1", "#dX"}}

\* The document of the parser's self-test (lines 436-453), with and without
\* the parts its resolved tree does not depend on: the Header, the
\* occurrence's SequenceNumber block and the UserData around object_string.
ScenarioDoc(header, seq, wrapped) ==
    Root((IF header THEN Elem("Header", <<<<"id", "h1">>, <<"transferContext", "TestCtx">>>>, <<>>)
          ELSE <<>>)
         \o View("pv1", "#occ1", None,
                 Occ("occ1", "#rev1", None, None,
                     IF seq
                     THEN UserData("AttributesInContext", UserValue("SequenceNumber", "10"))
                     ELSE <<>>))
         \o Elem("ProductRevision",
                 <<<<"id", "rev1">>, <<"name", "Part A Rev 1">>, <<"revision", "1">>,
                   <<"masterRef", "#prodA">>>>,
                 IF wrapped
                 THEN UserData("TC Specific Properties",
                               UserValue("object_string", "PartA-001 / A"))
                 ELSE UserValue("object_string", "PartA-001 / A"))
         \o Elem("Product", <<<<"id", "prodA">>, <<"name", "Part A">>,
                               <<"productId", "PartA-001">>>>, <<>>))

ScenarioDocs ==
    {ScenarioDoc(header, seq, wrapped) :
        header \in BOOLEAN, seq \in BOOLEAN, wrapped \in BOOLEAN}

\* A namespace other than the format's.
OTHER_NS == "urn:example:other"

\* The events of one element outside the PLMXML namespace.
ForeignElem(tag, pairs, children) ==
    <<[kind |-> "start", tag |-> tag, ns |-> OTHER_NS, attrib |-> Attribs(pairs)]>>
    \o children
    \o <<[kind |-> "end", tag |-> tag, ns |-> OTHER_NS, attrib |-> EmptyDict]>>

\* The element kinds of the nesting documents: elements of the tracked types
\* with and without an id, UserData blocks of both types, elements of the
\* other namespace with recognised local names, and no element at all.
NestKinds ==
    {"Occ1", "Occ2", "OccNoId", "ForeignOcc", "Rev1", "ForeignRev", "Form1",
     "Prod1", "DataSet1", "View1", "Header1", "Site1",
     "DataAIC", "DataOther", "ForeignData", "none"}

\* children wrapped in an element of the kind.
Wrap(kind, children) ==
    CASE kind = "Occ1" -> Occ("o1", None, None, "#o2", children)
      [] kind = "Occ2" -> Occ("o2", None, None, None, children)
      [] kind = "OccNoId" -> Elem("Occurrence", <<>>, children)
      [] kind = "ForeignOcc" -> ForeignElem("Occurrence", <<<<"id", "o9">>>>, children)
      [] kind = "Rev1" -> Rev("r1", "Part A", None, children)
      [] kind = "ForeignRev" -> ForeignElem("ProductRevision", <<<<"id", "r9">>>>, children)
      [] kind = "Form1" -> Elem("Form", <<<<"id", "f1">>, <<"name", "Form 1">>>>, children)
      [] kind = "Prod1" -> Elem("Product", <<<<"id", "p1">>, <<"productId", "P-001">>>>, children)
      [] kind = "DataSet1" -> Elem("DataSet", <<<<"id", "d1">>, <<"name", "Drawing">>>>, children)
      [] kind = "View1" -> View("pv1", "#o1", None, children)
      [] kind = "Header1" -> Elem("Header", <<<<"id", "h1">>, <<"transferContext", "Ctx">>>>, children)
      [] kind = "Site1" -> Elem("Site", <<<<"id", "s1">>, <<"name", "Site">>>>, children)
      [] kind = "DataAIC" -> UserData("AttributesInContext", children)
      [] kind = "DataOther" -> UserData("TC Specific Properties", children)
      [] kind = "ForeignData" ->
             ForeignElem("UserData", <<<<"type", "AttributesInContext">>>>, children)
      [] OTHER -> children

\* The kinds of the two inner elements of the nesting documents.
InnerKinds ==
    {"Occ1", "Occ2", "OccNoId", "ForeignOcc", "Rev1", "Form1",
     "DataAIC", "DataOther", "ForeignData", "none"}

\* Three elements inside one another, with a value element of title t at the
\* innermost place and after the close of each of the three.
NestDoc(a, b, c, t) ==
    Root(Wrap(a, Wrap(b, Wrap(c, UserValue(t, "v1")) \o UserValue(t, "v2"))
                 \o UserValue(t, "v3"))
         \o UserValue(t, "v4"))

\* Nesting: elements of any kinds inside one another, the value elements
\* titled with a dedicated title of an Occurrence, one of a ProductRevision
\* or a free one; the other dedicated titles inside an AttributesInContext
\* block with and without an Occurrence and a ProductRevision around it.
NestDocs ==
    {NestDoc(a, b, c, t) :
        a \in NestKinds, b \in InnerKinds, c \in InnerKinds,
        t \in {"SequenceNumber", "object_string", "color"}}
    \cup {NestDoc(a, b, "DataAIC", t) :
            a \in {"Rev1", "none"}, b \in {"Occ1", "none"},
            t \in {"Quantity", "last_mod_date"}}

\* The tags of the elements kept in an identifier-keyed table or, for
\* ProductView, in the list of descriptors.
RecordTags ==
    {"Occurrence", "Product", "ProductRevision", "RevisionRule",
     "AssociatedAttachment", "Form", "DataSet", "ExternalFile", "Site",
     "Header", "ProductView"}

\* What an element may hold to have values routed to its record: a
\* SequenceNumber inside an AttributesInContext block and an ApplicationRef.
Values(n) ==
    UserData("AttributesInContext", UserValue("SequenceNumber", "s" \o n))
    \o Elem("ApplicationRef", <<<<"label", "u" \o n>>, <<"version", "w" \o n>>>>, <<>>)

\* An element of the tag whose attributes all tell n.
DupElem(tag, id, n, children) ==
    Elem(tag, <<<<"id", id>>, <<"name", "name" \o n>>, <<"instancedRef", "#r" \o n>>,
                <<"role", "role" \o n>>, <<"format", "format" \o n>>,
                <<"transferContext", "ctx" \o n>>, <<"rootRefs", "#o" \o n>>,
                <<"productId", "P-" \o n>>, <<"siteId", "site" \o n>>>>, children)

\* Duplicates: three elements of one type, the second inside or after the
\* first, the ids of the second and third equal to the first's or not, each
\* with or without values routed to it.
DupDocs ==
    {Root(IF nested
          THEN DupElem(tag, "a", "1", (IF v1 THEN Values("1") ELSE <<>>)
                                      \o DupElem(tag, id2, "2", IF v2 THEN Values("2") ELSE <<>>))
               \o DupElem(tag, id3, "3", IF v3 THEN Values("3") ELSE <<>>)
          ELSE DupElem(tag, "a", "1", IF v1 THEN Values("1") ELSE <<>>)
               \o DupElem(tag, id2, "2", IF v2 THEN Values("2") ELSE <<>>)
               \o DupElem(tag, id3, "3", IF v3 THEN Values("3") ELSE <<>>)) :
        tag \in RecordTags, nested \in BOOLEAN,
        id2 \in {"a", "b"}, id3 \in {"a", "b"},
        v1 \in BOOLEAN, v2 \in BOOLEAN, v3 \in BOOLEAN}

\* The marker of a file that does not exist.
MissingFile ==
    <<[kind |-> "missing", tag |-> None, ns |-> None, attrib |-> EmptyDict]>>

\* The event at which iterparse raises XMLSyntaxError.
ErrorEvent == [kind |-> "error", tag |-> None, ns |-> None, attrib |-> EmptyDict]

\* Failures: a file that does not exist, and the self-test document cut off
\* by a syntax error after any number of its events.
AbortDocs ==
    {MissingFile}
    \cup {SubSeq(ScenarioDoc(TRUE, TRUE, TRUE), 1, n) \o <<ErrorEvent>> :
            n \in 0..(Len(ScenarioDoc(TRUE, TRUE, TRUE)) - 1)}

\* Documents without a product view: an empty one, one of an occurrence
\* alone, one whose ProductView has no id and one whose ProductView is of
\* another namespace.
NoViewDocs ==
    {Root(<<>>),
     Root(Occ("o1", None, None, None, <<>>)),
     Root(Elem("ProductView", <<<<"rootRefs", "#o1">>>>, <<>>)
          \o Occ("o1", None, None, None, <<>>)),
     Root(ForeignElem("ProductView", <<<<"id", "pv1">>, <<"rootRefs", "#o1">>>>, <<>>)
          \o Occ("o1", None, None, None, <<>>))}

\* The kinds of header elements: a PLMXML element of schema version 6, of
\* schema version 7 or of none, one of another namespace, and no element.
HeaderKinds == {"v6", "v7", "noVersion", "foreign", "none"}

\* children inside a header element of the kind, whose author, date and
\* time tell n.
HeaderElem(kind, n, children) ==
    LET pairs == <<<<"author", "author" \o n>>, <<"date", "date" \o n>>,
                   <<"time", "time" \o n>>>>
    IN  CASE kind = "v6" -> Elem("PLMXML", <<<<"schemaVersion", "6">>>> \o pairs, children)
          [] kind = "v7" -> Elem("PLMXML", <<<<"schemaVersion", "7">>>> \o pairs, children)
          [] kind = "noVersion" -> Elem("PLMXML", pairs, children)
          [] kind = "foreign" ->
                 ForeignElem("PLMXML", <<<<"schemaVersion", "6">>>> \o pairs, children)
          [] OTHER -> children

\* Headers: up to three PLMXML elements, the second inside the first and
\* the third after the second, around a product view.
HeaderDocs ==
    {Elem("Package", <<>>,
          HeaderElem(a, "1",
                     HeaderElem(b, "2", <<>>)
                     \o HeaderElem(c, "3", View("pv1", "#o1", None,
                                                Occ("o1", None, None, None, <<>>))))) :
        a \in HeaderKinds, b \in HeaderKinds, c \in HeaderKinds}

\* Two value elements of the title, the first of value x unless there is
\* none, the second of the value.
ValuePair(title, first, value) ==
    (IF first THEN UserValue(title, "x") ELSE <<>>) \o UserValue(title, value)

\* Values: value elements whose title and value are absent, empty or given,
\* in an AttributesInContext block of a root occurrence, in the revision it
\* instances, in a Form and outside every record; a second root occurrence
\* has no value.
ValueDocs ==
    {Root(View("pv1", "#o1 #o2", None,
               Occ("o1", "#r1", None, None,
                   UserData("AttributesInContext", ValuePair(t, f, v)))
               \o Occ("o2", None, None, None, <<>>))
          \o Rev("r1", "Part A", None, ValuePair(t, f, v))
          \o Elem("Form", <<<<"id", "f1">>, <<"name", "Form 1">>>>, ValuePair(t, f, v))
          \o ValuePair(t, f, v)) :
        t \in {None, "", "Quantity", "object_string", "color"},
        f \in BOOLEAN,
        v \in {None, "", "2"}}

\* The elements of the order documents: a view of root o1, the occurrence
\* o1 that instances r1 and has the child o2, the occurrence o2 and the
\* revision r1.
OrderElems ==
    <<View("pv1", "#o1", None, <<>>),
      Occ("o1", "#r1", None, "#o2", <<>>),
      Occ("o2", None, None, None, <<>>),
      Rev("r1", "Part A", None, <<>>)>>

\* Order: the four elements in each of their orders, so that every
\* reference has its target before it in some documents and after it in
\* others.
OrderDocs ==
    {Root(OrderElems[p[1]] \o OrderElems[p[2]] \o OrderElems[p[3]] \o OrderElems[p[4]]) :
        p \in {q \in [1..4 -> 1..4] : \A i \in 1..4 : \E j \in 1..4 : q[j] = i}}

Docs ==
    RootsDocs \cup TreeDocs \cup LinkDocs \cup AttachDocs \cup ScenarioDocs
    \cup AbortDocs \cup NoViewDocs \cup HeaderDocs \cup ValueDocs \cup OrderDocs

Init == \E d \in Docs : InitWith(d)

Spec == Init /\ [][Next]_vars

\* The parser over the documents that exercise the stream reader.
\* An ApplicationRef numbered n carrying a label, a version, both or neither.
AppRef(mode, n) ==
    Elem("ApplicationRef",
         (IF mode \in {"label", "both"} THEN <<<<"label", "u" \o n>>>> ELSE <<>>)
         \o (IF mode \in {"version", "both"} THEN <<<<"version", "w" \o n>>>> ELSE <<>>)
         \o (IF mode = "empty" THEN <<<<"label", "">>, <<"version", "">>>> ELSE <<>>),
         <<>>)

\* The kinds of the elements around an ApplicationRef.
AppRefKinds == {"Prod1", "DataSet1", "Form1", "Rev1", "OccNoId", "none"}

\* Application references: three elements inside one another, with an
\* ApplicationRef at the innermost place and after the close of each.
AppRefDocs ==
    {Root(Wrap(a, Wrap(b, Wrap(c, AppRef(m, "1")) \o AppRef(m, "2"))
                  \o AppRef(m, "3"))
          \o AppRef(m, "4")) :
        a \in AppRefKinds, b \in AppRefKinds, c \in AppRefKinds,
        m \in {"label", "version", "both", "none", "empty"}}

\* The kinds that set a context entry, outermost first.
ContextKinds ==
    <<"Header1", "Site1", "View1", "Occ1", "Prod1", "Rev1", "Form1", "DataSet1",
      "DataAIC">>

RECURSIVE WrapAll(_, _)
\* children wrapped in elements of the kinds, the first kind outermost.
WrapAll(kinds, children) ==
    IF kinds = <<>> THEN children
    ELSE Wrap(Head(kinds), WrapAll(Tail(kinds), children))

\* Deep nesting: an element of every type the context tracks inside one
\* another, an AttributesInContext block innermost, and inside it two
\* further elements of any kinds around a value element.
DeepDocs ==
    {Root(WrapAll(ContextKinds, Wrap(a, Wrap(b, UserValue("color", "v1"))))) :
        a \in InnerKinds, b \in InnerKinds}

StreamDocs == NestDocs \cup DupDocs \cup AbortDocs \cup AppRefDocs \cup DeepDocs

InitStream == \E d \in StreamDocs : InitWith(d)

SpecStream == InitStream /\ [][Next]_vars

\* The length of the longest raw reference attribute of the reference
\* documents.
MaxRefLen == 4

\* The characters of the raw reference attributes: the marker, two id
\* characters and two whitespace characters.
RefChars == {"#", "a", "b", " ", "\t"}

RECURSIVE Strings(_)
\* The strings over RefChars of length at most n.
Strings(n) ==
    IF n = 0 THEN {""}
    ELSE Strings(n - 1) \cup {s \o c : s \in Strings(n - 1), c \in RefChars}

\* The raw values of a reference attribute: absent, or any string.
RawRefs == {None} \cup Strings(MaxRefLen)

\* References: every single-valued and every multi-valued reference
\* attribute of the document has the raw value s; the occurrences are a
\* and b.
RefDoc(s) ==
    Root(Elem("ProductView", <<<<"id", "pv1">>, <<"ruleRefs", s>>,
                               <<"primaryOccurrenceRef", s>>, <<"rootRefs", s>>>>, <<>>)
         \o Occ("a", s, s, s, <<>>)
         \o Occ("b", None, None, None, <<>>)
         \o Rev("r1", "Part A", s, <<>>)
         \o Att("a1", s, "Reference")
         \o DataSet("d1", "Drawing", s))

RefDocs == {RefDoc(s) : s \in RawRefs} \cup AbortDocs

InitRefs == \E d \in RefDocs : InitWith(d)

SpecRefs == InitRefs /\ [][Next]_vars

---------------------------------------------------------------------------
(* Properties *)

Range(seq) == {seq[i] : i \in 1..Len(seq)}

\* parse has returned the result object.
Finished == pc = "done" /\ result = "data"

\* parse has returned after the streaming pass came to its end, that is,
\* hierarchy building has ended, with a result or with an error.
Built == pc = "done" /\ pos > Len(doc)

\* The ids of ids that are keys of the occurrences table, in order.
KnownOccurrences(ids) ==
    LET InTable(x) == x \in DOMAIN data.occurrences
    IN  SelectSeq(ids, InTable)

\* The known occurrences the child-reference lists of the occurrences of S name.
Children(S) ==
    {c \in DOMAIN data.occurrences :
        \E o \in S : c \in Range(data.occurrences[o].occurrenceRefIDs)}

RECURSIVE Descendants(_)
\* S and everything reachable from it along child references.
Descendants(S) ==
    LET T == S \cup Children(S) IN IF T = S THEN S ELSE Descendants(T)

\* The occurrences the builder resolved: the resolved roots of the product
\* views and what their child references reach.
Resolved ==
    Descendants(UNION {Range(data.productViews[k].occurrences) :
                          k \in 1..Len(data.productViews)})

\* No occurrence of the table reaches itself along child references.
Acyclic == \A o \in DOMAIN data.occurrences : o \notin Descendants(Children({o}))

\* The root identifier list as the root-resolution rule states it.
StatedRootIds(pv) ==
    IF Len(pv.rootRefs) > 0
    THEN pv.rootRefs
    ELSE IF pv.primaryOccurrenceRef # None
         THEN <<pv.primaryOccurrenceRef>>
         ELSE <<>>

\* C1: after hierarchy building every ProductView's resolved root list is, in
\* order, the nodes of those ids of L that are keys of the occurrences table,
\* L being rootRefs if non-empty, else [primaryOccurrenceRef] if present, else
\* empty; missing ids are omitted and the primary reference is not consulted
\* when rootRefs is non-empty.
C1_RootResolution ==
    Finished =>
        \A k \in 1..Len(data.productViews) :
            data.productViews[k].occurrences =
                KnownOccurrences(StatedRootIds(data.productViews[k]))

\* C1 witness: one view resolves a root list that holds a missing id and
\* ignores its (known) primary reference, another falls back to its primary.
C1_Witness ==
    /\ Finished
    /\ \E k \in 1..Len(data.productViews) :
          LET pv == data.productViews[k]
          IN  /\ pv.rootRefs # <<>>
              /\ \E x \in Range(pv.rootRefs) : x \notin DOMAIN data.occurrences
              /\ Len(pv.occurrences) >= 1
              /\ pv.primaryOccurrenceRef \in DOMAIN data.occurrences
              /\ pv.primaryOccurrenceRef \notin Range(pv.rootRefs)
    /\ \E k \in 1..Len(data.productViews) :
          LET pv == data.productViews[k]
          IN  /\ pv.rootRefs = <<>>
              /\ pv.primaryOccurrenceRef \in DOMAIN data.occurrences
              /\ pv.occurrences = <<pv.primaryOccurrenceRef>>

\* C2: the resolved child list of every resolved occurrence is its
\* child-reference list with the ids that are not keys of the occurrences
\* table dropped and all others kept in order, an id listed twice appearing
\* twice, with no placeholder for a dangling id.
C2_ChildResolution ==
    Finished =>
        \A o \in Resolved :
            data.occurrences[o].subOccurrences =
                KnownOccurrences(data.occurrences[o].occurrenceRefIDs)

\* C2 witness: a resolved occurrence lists a known child twice with a
\* dangling id between the two.
C2_Witness ==
    /\ Finished
    /\ \E o \in Resolved :
          LET refs == data.occurrences[o].occurrenceRefIDs
              subs == data.occurrences[o].subOccurrences
          IN  /\ Len(refs) = 3
              /\ refs[1] = refs[3]
              /\ refs[2] \notin DOMAIN data.occurrences
              /\ subs = <<refs[1], refs[1]>>

\* C3: hierarchy building ends with a resolved tree for every occurrence
\* reference graph, also one in which an occurrence's child references reach
\* one of its own ancestors.
C3_CycleSafety == Built => result = "data"

\* An attachment reference that names an AssociatedAttachment whose target is
\* a known DataSet.
ResolvesToDataSet(att_id) ==
    /\ att_id \in DOMAIN data.associatedAttachments
    /\ data.associatedAttachments[att_id].attachmentRef \in DOMAIN data.dataSets

\* C4: every attachment reference of a resolved occurrence that resolves
\* through the AssociatedAttachment table to a known DataSet yields one
\* attachment detail, whether or not the occurrence's instancedRef resolves.
C4_AttachmentsOwnStep ==
    Finished =>
        \A o \in Resolved :
            LET refs == data.occurrences[o].associatedAttachmentRefs
            IN  Len(data.occurrences[o].attachment_details) =
                    Cardinality({i \in 1..Len(refs) : ResolvesToDataSet(refs[i])})

\* The detail a reference yields: its AssociatedAttachment's role and target,
\* the target a key of dataSets.
DetailOf(detail, att_id) ==
    /\ ResolvesToDataSet(att_id)
    /\ detail.role = data.associatedAttachments[att_id].role
    /\ detail.dataSetId = data.associatedAttachments[att_id].attachmentRef

RECURSIVE Embeds(_, _, _, _)
\* details[i..] are the details of references at increasing places of refs[j..].
Embeds(details, refs, i, j) ==
    IF i > Len(details) THEN TRUE
    ELSE IF j > Len(refs) THEN FALSE
    ELSE IF DetailOf(details[i], refs[j])
         THEN Embeds(details, refs, i + 1, j + 1)
         ELSE Embeds(details, refs, i, j + 1)

\* C5: every attachment detail of an occurrence carries the role and the
\* attachmentRef of an AssociatedAttachment of the occurrence's reference
\* list, its dataSetId is a key of dataSets, and the details keep the order
\* of the references they come from.
C5_AttachmentDetails ==
    Finished =>
        \A o \in DOMAIN data.occurrences :
            Embeds(data.occurrences[o].attachment_details,
                   data.occurrences[o].associatedAttachmentRefs, 1, 1)

\* C5 witness: of three references the middle one points to a Form and is
\* dropped, the two others give two different details in order.
C5_Witness ==
    /\ Finished
    /\ \E o \in Resolved :
          LET refs == data.occurrences[o].associatedAttachmentRefs
              details == data.occurrences[o].attachment_details
          IN  /\ Len(refs) = 3
              /\ refs[2] \in DOMAIN data.associatedAttachments
              /\ data.associatedAttachments[refs[2]].attachmentRef \in DOMAIN data.forms
              /\ Len(details) = 2
              /\ DetailOf(details[1], refs[1])
              /\ DetailOf(details[2], refs[3])
              /\ details[1] # details[2]

\* C6: with an acyclic occurrence reference graph no dangling reference makes
\* the parse fail, and a ProductView none of whose root references exists
\* gets an empty resolved root list.
C6_DanglingNonFatal ==
    (Built /\ Acyclic) =>
        /\ result = "data"
        /\ \A k \in 1..Len(data.productViews) :
              LET pv == data.productViews[k]
              IN  (\A x \in Range(StatedRootIds(pv)) : x \notin DOMAIN data.occurrences)
                      => pv.occurrences = <<>>

\* C6 witness: a finished parse of a document with a view whose only root
\* reference is missing, and with a dangling child reference.
C6_Witness ==
    /\ Finished
    /\ \E k \in 1..Len(data.productViews) :
          LET pv == data.productViews[k]
          IN  /\ Len(pv.rootRefs) = 1
              /\ pv.rootRefs[1] \notin DOMAIN data.occurrences
              /\ pv.occurrences = <<>>
    /\ \E o \in DOMAIN data.occurrences :
          \E x \in Range(data.occurrences[o].occurrenceRefIDs) :
              x \notin DOMAIN data.occurrences

\* The occurrence's instancedRef is a key of the productRevisions table.
RevisionKnown(o) == data.occurrences[o].instancedRef \in DOMAIN data.productRevisions

\* The ProductRevision a resolved occurrence instances.
RevisionOf(o) == data.productRevisions[data.occurrences[o].instancedRef]

\* The occurrence's revision is known and its masterRef is a key of products.
ProductKnown(o) == RevisionKnown(o) /\ RevisionOf(o).masterRef \in DOMAIN data.products

\* C7 as stated: when the instanced ProductRevision has both a display
\* string (an object_string value) and a name, the display name is the
\* display string; the name is the display name only when no display string
\* was set.
C7_DisplayPrecedenceAsStated ==
    Finished =>
        \A o \in Resolved :
            RevisionKnown(o) =>
                /\ (RevisionOf(o).objectString # None /\ RevisionOf(o).name # None)
                       => data.occurrences[o].displayName = RevisionOf(o).objectString
                /\ RevisionOf(o).objectString = None
                       => data.occurrences[o].displayName = RevisionOf(o).name

\* C7: when the instanced ProductRevision has a non-empty display string, the
\* display name is the display string; the name is the display name when no
\* display string was set or the one set is empty.
C7_DisplayPrecedence ==
    Finished =>
        \A o \in Resolved :
            RevisionKnown(o) =>
                /\ Truthy(RevisionOf(o).objectString)
                       => data.occurrences[o].displayName = RevisionOf(o).objectString
                /\ ~Truthy(RevisionOf(o).objectString)
                       => data.occurrences[o].displayName = RevisionOf(o).name

\* C7 witness: a resolved occurrence whose revision has a display string and
\* a different name shows the display string.
C7_Witness ==
    /\ Finished
    /\ \E o \in Resolved :
          /\ RevisionKnown(o)
          /\ Truthy(RevisionOf(o).objectString)
          /\ Truthy(RevisionOf(o).name)
          /\ RevisionOf(o).objectString # RevisionOf(o).name
          /\ data.occurrences[o].displayName = RevisionOf(o).objectString

\* C8: after hierarchy building an occurrence's product code is non-default
\* only if its instancedRef is a key of productRevisions and that revision's
\* masterRef a key of products, and then it is the code of that Product.
C8_ProductCode ==
    Finished =>
        \A o \in DOMAIN data.occurrences :
            data.occurrences[o].productId # None =>
                /\ ProductKnown(o)
                /\ data.occurrences[o].productId =
                       data.products[RevisionOf(o).masterRef].productId

\* C8 witness: one occurrence carries the code of its revision's Product
\* while another, whose revision names a missing Product, carries none,
\* although the table holds Products with codes.
C8_Witness ==
    /\ Finished
    /\ \E o, q \in Resolved :
          /\ ProductKnown(o)
          /\ data.occurrences[o].productId # None
          /\ RevisionKnown(q)
          /\ Truthy(RevisionOf(q).masterRef)
          /\ ~ProductKnown(q)
          /\ data.occurrences[q].productId = None

\* Every display field of the occurrence is at its default.
DisplayDefaults(o) ==
    /\ data.occurrences[o].displayName = None
    /\ data.occurrences[o].name = None
    /\ data.occurrences[o].subType = None
    /\ data.occurrences[o].revision = None
    /\ data.occurrences[o].lastModDate = None
    /\ data.occurrences[o].productId = None

\* C9 as stated: a resolved occurrence whose instancedRef names no
\* ProductRevision, or whose revision's masterRef names no Product, has all
\* its display fields at their defaults.
C9_DefaultsAsStated ==
    Finished => \A o \in Resolved : ~ProductKnown(o) => DisplayDefaults(o)

\* C9: a resolved occurrence whose instancedRef names no ProductRevision has
\* all its display fields at their defaults; one whose revision is known but
\* names no Product has its product code at its default.
C9_Defaults ==
    Finished =>
        \A o \in Resolved :
            /\ ~RevisionKnown(o) => DisplayDefaults(o)
            /\ ~ProductKnown(o) => data.occurrences[o].productId = None

\* C9 witness: one resolved occurrence names a missing revision, another a
\* revision with fields to copy whose masterRef names a missing Product.
C9_Witness ==
    /\ Finished
    /\ \E o, q \in Resolved :
          /\ Truthy(data.occurrences[o].instancedRef)
          /\ ~RevisionKnown(o)
          /\ RevisionKnown(q)
          /\ Truthy(RevisionOf(q).masterRef)
          /\ ~ProductKnown(q)
          /\ data.occurrences[q].revision # None

\* C10: the scenario document (PLMXML > ProductView rootRefs #occ1 >
\* Occurrence occ1 instancing #rev1, then ProductRevision rev1 with
\* object_string 'PartA-001 / A', then Product prodA) yields one product
\* view with one root occurrence of display name 'PartA-001 / A', revision
\* '1', product code 'PartA-001', no children and no attachment details.
C10_Scenario ==
    (pc = "done" /\ doc \in ScenarioDocs) =>
        /\ result = "data"
        /\ Len(data.productViews) = 1
        /\ Len(data.productViews[1].occurrences) = 1
        /\ LET root == data.occurrences[data.productViews[1].occurrences[1]]
           IN  /\ root.id = "occ1"
               /\ root.displayName = "PartA-001 / A"
               /\ root.revision = "1"
               /\ root.productId = "PartA-001"
               /\ root.subOccurrences = <<>>
               /\ root.attachment_details = <<>>

\* C10 witness: the parse of the scenario's event sequence as the claim
\* lists it (no Header, no SequenceNumber block) has returned.
C10_Witness ==
    /\ pc = "done"
    /\ doc = ScenarioDoc(FALSE, FALSE, FALSE)
    /\ Len(data.productViews) = 1

---------------------------------------------------------------------------
(* The stream reader's properties.  An element is open between its start   *)
(* and its end event; what is open is read off the document, not off the   *)
(* reader's context map.                                                   *)

RECURSIVE OpenAt(_, _)
\* The indices of the start events of the elements open after the first n
\* events of d, outermost first.
OpenAt(d, n) ==
    IF n = 0 THEN <<>>
    ELSE IF d[n].kind = "start"
         THEN Append(OpenAt(d, n - 1), n)
         ELSE SubSeq(OpenAt(d, n - 1), 1, Len(OpenAt(d, n - 1)) - 1)

\* The loop is inside the streaming pass.
Streaming == pc = "stream"

\* The start events of the elements open at the current point of the pass.
Open == Range(OpenAt(doc, pos - 1))

\* The open in-namespace elements of type tag that carry an id.
OpenOf(tag) ==
    {i \in Open : /\ doc[i].ns = PLMXML_NS
                  /\ doc[i].tag = tag
                  /\ Truthy(Get(doc[i].attrib, "id"))}

\* The innermost of them.
Innermost(tag) == CHOOSE i \in OpenOf(tag) : \A j \in OpenOf(tag) : j <= i

\* The id of the innermost open element of type tag.
OpenId(tag) == doc[Innermost(tag)].attrib["id"]

\* The attributes-in-context flag is set.
FlagSet == "in_AttributesInContext" \in DOMAIN ctx

\* The next event opens an in-namespace UserValue with a non-empty title and
\* a value.
AtValue ==
    /\ Streaming
    /\ pos <= Len(doc)
    /\ doc[pos].kind = "start"
    /\ doc[pos].ns = PLMXML_NS
    /\ doc[pos].tag = "UserValue"
    /\ Truthy(Get(doc[pos].attrib, "title"))
    /\ Get(doc[pos].attrib, "value") # None

\* The tables after the value element at pos is routed as the precedence
\* rule states it, over the elements that are open.
RoutedAsStated ==
    LET title == doc[pos].attrib["title"]
        value == doc[pos].attrib["value"]
    IN  IF FlagSet /\ OpenOf("Occurrence") # {}
        THEN LET o == OpenId("Occurrence")
             IN  IF title = "SequenceNumber"
                 THEN [data EXCEPT !.occurrences[o].sequenceNumber = value]
                 ELSE IF title = "Quantity"
                 THEN [data EXCEPT !.occurrences[o].quantity = value]
                 ELSE [data EXCEPT !.occurrences[o].userAttributes = Put(@, title, value)]
        ELSE IF OpenOf("ProductRevision") # {}
        THEN LET r == OpenId("ProductRevision")
             IN  IF title = "object_string"
                 THEN [data EXCEPT !.productRevisions[r].objectString = value]
                 ELSE IF title = "last_mod_date"
                 THEN [data EXCEPT !.productRevisions[r].lastModDate = value]
                 ELSE [data EXCEPT !.productRevisions[r].userAttributes = Put(@, title, value)]
        ELSE IF OpenOf("Form") # {}
        THEN LET f == OpenId("Form")
             IN  [data EXCEPT !.forms[f].userAttributes = Put(@, title, value)]
        ELSE data

\* C11: a UserValue with a non-empty title and a value changes one field of
\* at most one record, by first match: with the flag set and an Occurrence
\* open the Occurrence's sequenceNumber, quantity or named attribute; else
\* with a ProductRevision open its objectString, lastModDate or named
\* attribute; else with a Form open its named attribute; else nothing.
C11_ValueRouting == [][AtValue => data' = RoutedAsStated]_vars

\* The element types whose open record the context map tracks.
TrackedTypes ==
    {"Header", "Site", "ProductView", "Occurrence", "Product",
     "ProductRevision", "Form", "DataSet"}

\* What names the record created for the innermost open element of type
\* tag: its key in its table, or for a ProductView the place of its
\* descriptor in the list, one per ProductView element with an id so far.
RecordOfInnermost(tag) ==
    IF tag = "ProductView"
    THEN Cardinality({i \in 1..Innermost(tag) :
                         /\ doc[i].kind = "start"
                         /\ doc[i].ns = PLMXML_NS
                         /\ doc[i].tag = tag
                         /\ Truthy(Get(doc[i].attrib, "id"))})
    ELSE OpenId(tag)

\* C12: at every point of the streaming pass and for each tracked element
\* type, the context holds an entry for the type exactly when an
\* in-namespace element of the type carrying an id is open, and the entry is
\* the record created for the innermost such element.
C12_ContextTracksOpen ==
    Streaming =>
        \A t \in TrackedTypes :
            /\ (t \in DOMAIN ctx) <=> (OpenOf(t) # {})
            /\ OpenOf(t) # {} => ctx[t] = RecordOfInnermost(t)

\* The next event opens or closes an element outside the PLMXML namespace.
AtForeign ==
    /\ Streaming
    /\ pos <= Len(doc)
    /\ doc[pos].ns # PLMXML_NS

\* C13: the open event and the close event of an element outside the PLMXML
\* namespace leave the reader state unchanged, whatever the element's local
\* name: no table, no context entry and not the flag changes.
C13_ForeignIgnored == [][AtForeign => (data' = data /\ ctx' = ctx)]_vars

\* The open in-namespace UserData elements of type AttributesInContext.
OpenAttributesInContext ==
    {i \in Open : /\ doc[i].ns = PLMXML_NS
                  /\ doc[i].tag = "UserData"
                  /\ Get(doc[i].attrib, "type") = "AttributesInContext"}

\* C14: at every point of the streaming pass the attributes-in-context flag
\* is set exactly when a UserData element of type AttributesInContext is
\* open; the close of another UserData element does not clear it.
C14_FlagTracksBlock ==
    Streaming => (FlagSet <=> OpenAttributesInContext # {})

---------------------------------------------------------------------------
(* The builder's effect on the tables, and the shape of what it builds *)

\* The flat record tables the builder consults.
RecordTables ==
    {"occurrences", "productRevisions", "products", "associatedAttachments",
     "dataSets", "externalFiles", "forms"}

\* C15: hierarchy building only reads the flat record tables: no step of it
\* changes a field of a record of the occurrences, productRevisions,
\* products, associatedAttachments, dataSets, externalFiles or forms table,
\* so each record has after building the values it had when streaming ended.
C15_BuildReadsOnly ==
    [][pc = "build" => \A t \in RecordTables : data'[t] = data[t]]_vars

\* The places of the resolved structure that hold a node: the positions of
\* the root lists of the product views and of the child lists of the
\* resolved nodes.
Places ==
    UNION {{<<"root", k, j>> : j \in 1..Len(data.productViews[k].occurrences)} :
              k \in 1..Len(data.productViews)}
    \cup UNION {{<<"child", o, j>> : j \in 1..Len(data.occurrences[o].subOccurrences)} :
                   o \in Resolved}

\* The node at a place.
NodeAt(p) ==
    IF p[1] = "root"
    THEN data.productViews[p[2]].occurrences[p[3]]
    ELSE data.occurrences[p[2]].subOccurrences[p[3]]

\* C16: after hierarchy building the resolved structure is a forest of
\* disjoint trees: no resolved node is in two places, be it the child lists
\* of two parents, one child list twice, a root list and a child list, or
\* the root lists of two product views.
C16_DisjointTrees ==
    Finished =>
        \A p \in Places, q \in Places : NodeAt(p) = NodeAt(q) => p = q

---------------------------------------------------------------------------
(* Duplicate identifiers *)

\* The tags of the elements kept in an identifier-keyed table.
KeyedTags == RecordTags \ {"ProductView"}

\* The table that keeps the records of the elements of a tag.
TableOf(tag) ==
    CASE tag = "Occurrence" -> "occurrences"
      [] tag = "Product" -> "products"
      [] tag = "ProductRevision" -> "productRevisions"
      [] tag = "RevisionRule" -> "revisionRules"
      [] tag = "AssociatedAttachment" -> "associatedAttachments"
      [] tag = "Form" -> "forms"
      [] tag = "DataSet" -> "dataSets"
      [] tag = "ExternalFile" -> "externalFiles"
      [] tag = "Site" -> "sites"
      [] tag = "Header" -> "transferContexts"

\* The record an element of the tag with these attributes is built into.
FreshRecord(tag, id, attrib) ==
    CASE tag = "Occurrence" -> NewOccurrence(id, attrib)
      [] tag = "Product" -> NewProduct(id, attrib)
      [] tag = "ProductRevision" -> NewProductRevision(id, attrib)
      [] tag = "RevisionRule" -> NewRevisionRule(id, attrib)
      [] tag = "AssociatedAttachment" -> NewAssociatedAttachment(id, attrib)
      [] tag = "Form" -> NewForm(id, attrib)
      [] tag = "DataSet" -> NewDataSet(id, attrib)
      [] tag = "ExternalFile" -> NewExternalFile(id, attrib, data.plmxml_directory)
      [] tag = "Site" -> NewSite(id, attrib)
      [] tag = "Header" -> NewTransferContext(id, attrib)

\* The fields of a record that elements inside its element are routed to.
RoutedFields(tag) ==
    CASE tag = "Occurrence" -> {"sequenceNumber", "quantity", "userAttributes"}
      [] tag = "ProductRevision" ->
             {"objectString", "lastModDate", "revisionUid", "userAttributes"}
      [] tag \in {"Product", "DataSet"} -> {"uid"}
      [] tag = "Form" -> {"uid", "userAttributes"}
      [] OTHER -> {}

\* The start events read so far of the in-namespace elements of the tag
\* that carry the id.
Creations(tag, id) ==
    {i \in 1..(pos - 1) : /\ doc[i].kind = "start"
                          /\ doc[i].ns = PLMXML_NS
                          /\ doc[i].tag = tag
                          /\ Get(doc[i].attrib, "id") = id}

\* The ids the elements of the tag read so far carry.
IdsOf(tag) ==
    {id \in {Get(doc[i].attrib, "id") : i \in 1..(pos - 1)} :
        Truthy(id) /\ Creations(tag, id) # {}}

\* The last of the start events of the tag with the id.
LastOf(tag, id) ==
    CHOOSE i \in Creations(tag, id) : \A j \in Creations(tag, id) : j <= i

\* Nothing inside the element that starts at i has been read: it is the
\* last event read, or the element is empty.
NothingInside(i) == i = pos - 1 \/ doc[i + 1].kind = "end"

\* C17: each identifier-keyed table maps every id that elements of its type
\* carry to the record built from the last such element in document order:
\* the record has that element's attributes, and nothing routed to an
\* earlier element of the id is left in it.
C17_LastElementWins ==
    Streaming =>
        \A tag \in KeyedTags :
            LET table == data[TableOf(tag)]
            IN  /\ DOMAIN table = IdsOf(tag)
                /\ \A id \in DOMAIN table :
                       LET last == LastOf(tag, id)
                           fresh == FreshRecord(tag, id, doc[last].attrib)
                       IN  /\ \A f \in (DOMAIN fresh) \ RoutedFields(tag) :
                                  table[id][f] = fresh[f]
                           /\ NothingInside(last) => table[id] = fresh

\* C17 witness: the streaming pass has ended on a document with three
\* Occurrence elements of id a, the first with a SequenceNumber routed to
\* it and the last one empty: the table holds the record of the third.
C17_Witness ==
    /\ Streaming
    /\ pos > Len(doc)
    /\ Cardinality(Creations("Occurrence", "a")) = 3
    /\ doc[3].tag = "UserData"
    /\ NothingInside(LastOf("Occurrence", "a"))
    /\ data.occurrences["a"].instancedRef = "r3"
    /\ data.occurrences["a"].sequenceNumber = None

\* The streaming pass is over.
Streamed == pc # "stream" \/ pos > Len(doc)

\* C18 as stated: ProductView descriptors are keyed by identifier, so after
\* the streaming pass no two descriptors of the result have the same id.
C18_ViewsKeyedAsStated ==
    Streamed =>
        \A i \in 1..Len(data.productViews), j \in 1..Len(data.productViews) :
            data.productViews[i].id = data.productViews[j].id => i = j

\* The start events read so far of the in-namespace ProductView elements
\* that carry an id, in document order.
ViewStarts ==
    LET IsView(i) == /\ doc[i].kind = "start"
                     /\ doc[i].ns = PLMXML_NS
                     /\ doc[i].tag = "ProductView"
                     /\ Truthy(Get(doc[i].attrib, "id"))
    IN  SelectSeq([i \in 1..(pos - 1) |-> i], IsView)

\* C18: ProductView descriptors are kept in a list in document order, one
\* for each in-namespace ProductView element carrying an id, duplicates of an
\* id included: a later element with the id of an earlier one adds a
\* descriptor and replaces none.
C18_ViewsListed ==
    /\ Len(data.productViews) = Len(ViewStarts)
    /\ \A k \in 1..Len(ViewStarts) :
           LET fresh == NewProductView(doc[ViewStarts[k]].attrib["id"],
                                       doc[ViewStarts[k]].attrib)
           IN  \A f \in {"id", "ruleRefs", "primaryOccurrenceRef", "rootRefs"} :
                   data.productViews[k][f] = fresh[f]

\* C18 witness: the streaming pass has ended with three descriptors, the
\* first and the third of the same id and of different root references.
C18_Witness ==
    /\ Streamed
    /\ Len(data.productViews) = 3
    /\ data.productViews[1].id = data.productViews[3].id
    /\ data.productViews[2].id # data.productViews[1].id
    /\ data.productViews[1].rootRefs = <<"o1">>
    /\ data.productViews[3].rootRefs = <<"o3">>

---------------------------------------------------------------------------
(* Identifier integrity *)

\* The identifier-keyed tables of the result.
KeyedTables ==
    {"revisionRules", "generalInfo", "sites", "transferContexts",
     "productRevisions", "products", "occurrences", "associatedAttachments",
     "forms", "dataSets", "externalFiles"}

\* The reference a place of the resolved structure was resolved from: the
\* ids of the root list or of the parent's child-reference list that name an
\* occurrence, in order, give the nodes of the list in order.
ReferenceAt(p) ==
    IF p[1] = "root"
    THEN KnownOccurrences(StatedRootIds(data.productViews[p[2]]))[p[3]]
    ELSE KnownOccurrences(data.occurrences[p[2]].occurrenceRefIDs)[p[3]]

\* C19: in every table the record stored under key k has id k, and every
\* record reached by resolving a reference r, be it a root reference, a
\* child reference or the dataSetId of an attachment detail, has the
\* identifier r.
C19_IdentifierIntegrity ==
    /\ \A t \in KeyedTables : \A k \in DOMAIN data[t] : data[t][k].id = k
    /\ Finished =>
           /\ \A p \in Places : data.occurrences[NodeAt(p)].id = ReferenceAt(p)
           /\ \A o \in DOMAIN data.occurrences :
                  \A j \in 1..Len(data.occurrences[o].attachment_details) :
                      LET r == data.occurrences[o].attachment_details[j].dataSetId
                      IN  r \in DOMAIN data.dataSets /\ data.dataSets[r].id = r

\* C19 witness: a finished parse resolved a root reference and a child
\* reference, each next to a reference that names no occurrence.
C19_Witness ==
    /\ Finished
    /\ \E k \in 1..Len(data.productViews) :
           /\ Len(data.productViews[k].occurrences) = 1
           /\ Len(data.productViews[k].rootRefs) = 2
           /\ LET root == data.occurrences[data.productViews[k].occurrences[1]]
              IN  /\ root.id = data.productViews[k].rootRefs[2]
                  /\ Len(root.occurrenceRefIDs) = 2
                  /\ Len(root.subOccurrences) = 1
                  /\ data.occurrences[root.subOccurrences[1]].id = root.occurrenceRefIDs[1]

---------------------------------------------------------------------------
(* C21: all or nothing *)

\* parse or parse_plmxml has given up: an except clause ran or the file was
\* not there.
Aborted ==
    \E i \in 1..Len(log) :
        log[i][1] \in {"XMLSyntaxError", "FileNotFound", "UnexpectedError"}

\* What a caller shows for a parse without a result.
FailureOutcomes == {"input_not_found", "parse_error", "parsing_error", "no_result"}

\* C21: parse answers with the result object only when every stream event
\* has been handled and every view has been built; once streaming or
\* building has aborted the answer is None, whatever the tables hold, and no
\* caller shows such tables as a success.
C21_AllOrNothing ==
    /\ result = "data" =>
          /\ pc = "done"
          /\ pos > Len(doc)
          /\ pvI > Len(data.productViews)
          /\ stack = <<>>
          /\ ~Aborted
    /\ Aborted => (pc = "done" /\ result = None)
    /\ (Aborted /\ shown # NotShown) => shown.outcome \in FailureOutcomes

\* A parse that aborted with occurrences already in the tables, and the
\* export has reported it.
C21_Witness ==
    /\ Aborted
    /\ DOMAIN data.occurrences # {}
    /\ result = None
    /\ shown # NotShown
    /\ shown.by = "cli"

---------------------------------------------------------------------------
(* C22: link failures and their diagnostics *)

\* A diagnostic that names the missing identifier and its referrer.
Reported(missing, referrer) ==
    \E i \in 1..Len(log) :
        Len(log[i]) = 3 /\ log[i][2] = missing /\ log[i][3] = referrer

\* A diagnostic that names the identifier, whoever it gives as the referrer.
Mentioned(missing) ==
    \E i \in 1..Len(log) : Len(log[i]) = 3 /\ log[i][2] = missing

\* The link failures of a resolved occurrence whose revision resolves: its
\* attachment references without an AssociatedAttachment, the targets of its
\* AssociatedAttachments that are no DataSet, and the revision's masterRef
\* when it is no product.
RevisionLinkFailures(o) ==
    LET occ == data.occurrences[o]
        rev == data.productRevisions[occ.instancedRef]
        refs == Range(occ.associatedAttachmentRefs)
    IN  {a \in refs : a \notin DOMAIN data.associatedAttachments}
        \cup {data.associatedAttachments[a].attachmentRef :
                a \in {b \in refs :
                         /\ b \in DOMAIN data.associatedAttachments
                         /\ Truthy(data.associatedAttachments[b].attachmentRef)
                         /\ data.associatedAttachments[b].attachmentRef
                                \notin DOMAIN data.dataSets}}
        \cup (IF Truthy(rev.masterRef) /\ rev.masterRef \notin DOMAIN data.products
              THEN {rev.masterRef} ELSE {})

\* C22: after building, every root reference and every child reference
\* that is not in the occurrences table has a diagnostic naming it and its
\* view or parent, and every attachment reference without an
\* AssociatedAttachment, every attachment target that is no DataSet and
\* every masterRef that is no product has a diagnostic naming it.
C22_LinkFailuresReported ==
    Finished =>
        /\ \A p \in 1..Len(data.productViews) :
              \A id \in Range(root_ids(data.productViews[p])) :
                  id \notin DOMAIN data.occurrences =>
                      Reported(id, data.productViews[p].id)
        /\ \A o \in Resolved :
              /\ \A c \in Range(data.occurrences[o].occurrenceRefIDs) :
                    c \notin DOMAIN data.occurrences => Reported(c, o)
              /\ revision_resolves(data, data.occurrences[o]) =>
                    \A m \in RevisionLinkFailures(o) : Mentioned(m)

---------------------------------------------------------------------------
(* C23: application references *)

\* The next event opens an in-namespace ApplicationRef.
AtApplicationRef ==
    /\ Streaming
    /\ pos <= Len(doc)
    /\ doc[pos].kind = "start"
    /\ doc[pos].ns = PLMXML_NS
    /\ doc[pos].tag = "ApplicationRef"

\* The tables after the ApplicationRef at pos is applied as stated, over
\* the elements that are open.
AppliedAsStated ==
    LET version == Get(doc[pos].attrib, "version")
        label == Get(doc[pos].attrib, "label")
        d1 == IF Truthy(version) /\ OpenOf("ProductRevision") # {}
              THEN [data EXCEPT
                       !.productRevisions[OpenId("ProductRevision")].revisionUid = version]
              ELSE data
    IN  IF ~Truthy(label)
        THEN d1
        ELSE IF OpenOf("Product") # {}
        THEN [d1 EXCEPT !.products[OpenId("Product")].uid = label]
        ELSE IF OpenOf("DataSet") # {}
        THEN [d1 EXCEPT !.dataSets[OpenId("DataSet")].uid = label]
        ELSE IF OpenOf("Form") # {}
        THEN [d1 EXCEPT !.forms[OpenId("Form")].uid = label]
        ELSE d1

\* C23: an ApplicationRef with a version sets the revisionUid of the open
\* ProductRevision and nothing else; one with a label sets the uid of
\* exactly one record, the first open one of Product, DataSet, Form in that
\* order; with no such record open it changes nothing.
C23_ApplicationRefAsStated == [][AtApplicationRef => data' = AppliedAsStated]_vars

---------------------------------------------------------------------------
(* C24: a failed parse and an empty one *)

\* The export or the window has reported on the parse.
Reported24 == shown.by \in {"cli", "gui"}

\* The result has no resolved root to show: no product view, or only
\* product views with an empty root list.
NothingToShow ==
    \A k \in 1..Len(data.productViews) : data.productViews[k].occurrences = <<>>

\* C24 as stated: parse_plmxml answers None exactly when the input is
\* missing or the parse aborted, and a result without a product view or with
\* only empty root lists is reported by the consumers as no data.
C24_EmptyReportedAsNoData ==
    /\ pc = "done" => (result = None <=> Aborted)
    /\ (Reported24 /\ result = "data" /\ NothingToShow) =>
           shown.outcome = "no_bom_data"

\* C24: parse_plmxml answers None exactly when the input is missing or the
\* parse aborted, and the consumers report a failure exactly then; a result
\* without a product view is reported as no data; a result whose first
\* product view has an empty root list is reported as loaded or exported,
\* with no row.
C24_FailureDistinguished ==
    /\ pc = "done" => (result = None <=> Aborted)
    /\ Reported24 =>
           /\ shown.outcome \in FailureOutcomes <=> Aborted
           /\ (result = "data" /\ data.productViews = <<>>) =>
                  shown.outcome = "no_bom_data"
           /\ (result = "data" /\ data.productViews # <<>>) =>
                  /\ shown.outcome \in {"exported", "loaded"}
                  /\ data.productViews[1].occurrences = <<>> => shown.rows = <<>>

\* C24 witness: the window has loaded a result whose only product view
\* names a root that is not in the table.
C24_Witness ==
    /\ result = "data"
    /\ Len(data.productViews) = 1
    /\ data.productViews[1].rootRefs # <<>>
    /\ data.productViews[1].occurrences = <<>>
    /\ shown.by = "gui"
    /\ shown.outcome = "loaded"
    /\ shown.rows = <<>>

\* The export has reported no data for a result without a product view.
C24_WitnessNoView ==
    /\ result = "data"
    /\ data.productViews = <<>>
    /\ DOMAIN data.occurrences # {}
    /\ shown.by = "cli"
    /\ shown.outcome = "no_bom_data"

---------------------------------------------------------------------------
(* C25: the tables only grow *)

\* Every table and the list of product views is empty.
TablesEmpty ==
    /\ \A t \in KeyedTables : DOMAIN data[t] = {}
    /\ data.productViews = <<>>

\* The tables after a step hold every key they held before it, and the list
\* of product views begins with the descriptors it held before it.
TablesGrow ==
    /\ \A t \in KeyedTables : DOMAIN data[t] \subseteq DOMAIN data'[t]
    /\ Len(data'.productViews) >= Len(data.productViews)
    /\ SubSeq(data'.productViews, 1, Len(data.productViews)) = data.productViews

\* C25: every table is empty before the first event of a parse, and no
\* event of the streaming pass removes a key from a table or a descriptor
\* from the list of product views.
C25_TablesOnlyGrow ==
    /\ (pos = 1 => TablesEmpty)
    /\ [][Streaming => TablesGrow]_vars

\* C25 witness: the pass is at a close event with records in three tables
\* and a descriptor in the list, an element of every one of them closed
\* before.
C25_Witness ==
    /\ Streaming
    /\ pos <= Len(doc)
    /\ doc[pos].kind = "end"
    /\ data.productViews # <<>>
    /\ Cardinality(DOMAIN data.occurrences) >= 2
    /\ DOMAIN data.productRevisions # {}
    /\ DOMAIN data.products # {}

---------------------------------------------------------------------------
(* C26: the header-only view *)

\* The start events of the in-namespace PLMXML elements, in document order.
HeaderStarts ==
    LET IsHeader(i) == /\ doc[i].kind = "start"
                       /\ doc[i].ns = PLMXML_NS
                       /\ doc[i].tag = "PLMXML"
    IN  SelectSeq([i \in 1..Len(doc) |-> i], IsHeader)

\* The header mapping of the element that starts at i.
HeaderOf(i) ==
    [schemaVersion |-> GetOr(doc[i].attrib, "schemaVersion", "unknown"),
     author |-> Get(doc[i].attrib, "author"),
     date |-> Get(doc[i].attrib, "date"),
     time |-> Get(doc[i].attrib, "time")]

\* C26: parse_plmxml_header answers with the schema version, author, date
\* and time of the first PLMXML element of the document; with an empty
\* mapping when the parse succeeded and the document has no PLMXML element;
\* with None when the parse failed.
C26_HeaderOfFirstElement ==
    shown.by = "header" =>
        IF result = None
        THEN shown.outcome = "no_result"
        ELSE IF HeaderStarts = <<>>
        THEN shown.outcome = "empty" /\ shown.value = EmptyDict
        ELSE shown.outcome = "header" /\ shown.value = HeaderOf(HeaderStarts[1])

---------------------------------------------------------------------------
(* C27: the attachment detail the consumers show *)

\* The export or the window shows the rows of the first product view.
RowsShown ==
    /\ shown.by \in {"cli", "gui"}
    /\ shown.outcome \in {"exported", "loaded"}

\* The entry stated for a member reference: location and format of its
\* ExternalFile, or a not-found entry.
StatedEntry(member_ref) ==
    IF member_ref \in DOMAIN data.externalFiles
    THEN data.externalFiles[member_ref].locationRef
         \o " (" \o data.externalFiles[member_ref].format \o ")"
    ELSE "Ref: " \o member_ref \o " (Not Found)"

\* The detail stated for an attachment reference that has a role and points
\* to a DataSet with a type and a name: the role, the DataSet's type and
\* name, and the entries of its member references in their order.
StatedDetail(att_id) ==
    LET att == data.associatedAttachments[att_id]
        ds == data.dataSets[att.attachmentRef]
        entries == [i \in 1..Len(ds.memberRefs) |-> StatedEntry(ds.memberRefs[i])]
    IN  "Role: " \o att.role \o ", Type: " \o ds.type \o ", Name: " \o ds.name
        \o ", Files: [" \o (IF entries = <<>> THEN "No Files" ELSE Join(entries, "; "))
        \o "]"

\* The attachment references of an occurrence with a role that point to a
\* DataSet.
ShownAttachments(o) ==
    {a \in Range(data.occurrences[o].associatedAttachmentRefs) :
        ResolvesToDataSet(a) /\ Truthy(data.associatedAttachments[a].role)}

\* C27: for every occurrence the consumers show and every attachment
\* reference of it whose AssociatedAttachment has a role and points to a
\* DataSet, the occurrence's row has a detail with that role, the DataSet's
\* type and name and one entry per member reference in the member order, a
\* member that is no ExternalFile as a not-found entry in its place.
C27_AttachmentDetailShown ==
    RowsShown =>
        \A k \in 1..Len(shown.rows) :
            \A a \in ShownAttachments(shown.rows[k].occ) :
                \E j \in 1..Len(shown.rows[k].details) :
                    shown.rows[k].details[j] = StatedDetail(a)

---------------------------------------------------------------------------
(* C28: the default quantity *)

\* C28 as stated: a shown occurrence to which no Quantity value was routed
\* has the quantity "1", one to which a value was routed has that value.
C28_QuantityAsStated ==
    RowsShown =>
        \A k \in 1..Len(shown.rows) :
            LET routed == data.occurrences[shown.rows[k].occ].quantity
            IN  shown.rows[k].quantity = IF routed = None THEN "1" ELSE routed

\* C28: a shown occurrence to which no Quantity value or the empty string
\* was routed has the quantity "1", one to which a non-empty value was
\* routed has that value.
C28_QuantityShown ==
    RowsShown =>
        \A k \in 1..Len(shown.rows) :
            LET routed == data.occurrences[shown.rows[k].occ].quantity
            IN  shown.rows[k].quantity =
                    IF routed = None \/ routed = "" THEN "1" ELSE routed

\* C28 witness: the export shows an occurrence with the routed quantity 2
\* next to one without a routed value, shown with 1.
C28_Witness ==
    /\ RowsShown
    /\ shown.by = "cli"
    /\ Len(shown.rows) = 2
    /\ data.occurrences[shown.rows[1].occ].quantity = "2"
    /\ shown.rows[1].quantity = "2"
    /\ data.occurrences[shown.rows[2].occ].quantity = None
    /\ shown.rows[2].quantity = "1"

\* The window shows an occurrence to which the empty string was routed as
\* quantity with 1.
C28_WitnessEmpty ==
    /\ RowsShown
    /\ shown.by = "gui"
    /\ shown.rows # <<>>
    /\ data.occurrences[shown.rows[1].occ].quantity = ""
    /\ shown.rows[1].quantity = "1"

---------------------------------------------------------------------------
(* C29: value elements that are dropped *)

\* The next event is of an in-namespace UserValue element.
AtUserValue(kind) ==
    /\ Streaming
    /\ pos <= Len(doc)
    /\ doc[pos].kind = kind
    /\ doc[pos].ns = PLMXML_NS
    /\ doc[pos].tag = "UserValue"

\* The next event opens a UserValue without a title, with the empty title
\* or without a value.
AtDroppedValue ==
    /\ AtUserValue("start")
    /\ \/ ~Truthy(Get(doc[pos].attrib, "title"))
       \/ Get(doc[pos].attrib, "value") = None

\* The next event opens a UserValue with a title and the empty value.
AtEmptyValue ==
    /\ AtUserValue("start")
    /\ Truthy(Get(doc[pos].attrib, "title"))
    /\ Get(doc[pos].attrib, "value") = ""

\* After the step the record the context holds to receive a value of the
\* title has the empty string where the title goes.
EmptyValueKept ==
    LET title == doc[pos].attrib["title"]
    IN  IF FlagSet /\ "Occurrence" \in DOMAIN ctx
        THEN LET occ == data'.occurrences[ctx["Occurrence"]]
             IN  IF title = "SequenceNumber" THEN occ.sequenceNumber = ""
                 ELSE IF title = "Quantity" THEN occ.quantity = ""
                 ELSE Get(occ.userAttributes, title) = ""
        ELSE IF "ProductRevision" \in DOMAIN ctx
        THEN LET rev == data'.productRevisions[ctx["ProductRevision"]]
             IN  IF title = "object_string" THEN rev.objectString = ""
                 ELSE IF title = "last_mod_date" THEN rev.lastModDate = ""
                 ELSE Get(rev.userAttributes, title) = ""
        ELSE IF "Form" \in DOMAIN ctx
        THEN Get(data'.forms[ctx["Form"]].userAttributes, title) = ""
        ELSE TRUE

\* C29: a UserValue element without a title, with the empty title or
\* without a value attribute leaves every table, every record and the
\* context as they are, at its start and at its end, and the pass goes on;
\* a UserValue with a title and the empty value is kept: the record that
\* receives it has the empty string afterwards.
C29_DroppedValues ==
    [][/\ AtDroppedValue =>
             /\ data' = data /\ ctx' = ctx /\ log' = log
             /\ pc' = "stream" /\ pos' = pos + 1 /\ result' = result
       /\ AtUserValue("end") => (data' = data /\ ctx' = ctx /\ pc' = "stream")
       /\ AtEmptyValue => EmptyValueKept]_vars

\* C29 witness: inside a ProductRevision a value element without a value
\* has just been read after one that set the display string, which is
\* still there.
C29_Witness ==
    /\ Streaming
    /\ pos > 1
    /\ doc[pos - 1].kind = "start"
    /\ doc[pos - 1].tag = "UserValue"
    /\ Get(doc[pos - 1].attrib, "title") = "object_string"
    /\ Get(doc[pos - 1].attrib, "value") = None
    /\ "ProductRevision" \in DOMAIN ctx
    /\ data.productRevisions[ctx["ProductRevision"]].objectString = "x"

\* An empty value has just replaced the quantity of the open occurrence.
C29_WitnessEmpty ==
    /\ Streaming
    /\ pos > 1
    /\ doc[pos - 1].kind = "start"
    /\ doc[pos - 1].tag = "UserValue"
    /\ Get(doc[pos - 1].attrib, "value") = ""
    /\ FlagSet
    /\ "Occurrence" \in DOMAIN ctx
    /\ data.occurrences[ctx["Occurrence"]].quantity = ""

---------------------------------------------------------------------------
(* C30: streaming first, building second *)

\* The ids of the in-namespace elements of the tag anywhere in the document.
DocIds(tag) ==
    {id \in {Get(doc[i].attrib, "id") :
               i \in {j \in 1..Len(doc) : /\ doc[j].kind = "start"
                                          /\ doc[j].ns = PLMXML_NS
                                          /\ doc[j].tag = tag}} :
        Truthy(id)}

\* The ids of the list that some Occurrence element of the document carries.
InDocument(ids) ==
    LET Carried(x) == x \in DocIds("Occurrence")
    IN  SelectSeq(ids, Carried)

\* Every reference resolves by the whole document: the root and child lists
\* hold the references that some Occurrence element carries, before or
\* after the referring element, and an occurrence has the name of its
\* revision exactly when some ProductRevision element carries its
\* instancedRef.
ResolvedByDocument ==
    /\ \A k \in 1..Len(data.productViews) :
           data.productViews[k].occurrences = InDocument(root_ids(data.productViews[k]))
    /\ \A o \in Resolved :
           LET occ == data.occurrences[o]
           IN  /\ occ.subOccurrences = InDocument(occ.occurrenceRefIDs)
               /\ revision_resolves(data, occ) <=>
                      (Truthy(occ.instancedRef)
                       /\ occ.instancedRef \in DocIds("ProductRevision"))
               /\ revision_resolves(data, occ) =>
                      occ.name = data.productRevisions[occ.instancedRef].name

\* A step of the builder handles no stream event and finds the tables it
\* looks records up in as the streaming pass left them: the keys of the
\* occurrences and every record of the other tables.
BuildAfterStream ==
    /\ pos' = pos
    /\ ctx' = ctx
    /\ DOMAIN data'.occurrences = DOMAIN data.occurrences
    /\ Len(data'.productViews) = Len(data.productViews)
    /\ \A t \in RecordTables \ {"occurrences"} : data'[t] = data[t]

\* C30: hierarchy building starts only after the last stream event has
\* been handled and no stream event is handled once it has started, so the
\* builder looks up in the final tables, and after building every
\* reference is resolved by what the whole document holds, wherever the
\* referenced element stands.
C30_StrictOrder ==
    /\ []((pc = "build" \/ Finished) => pos > Len(doc))
    /\ [](Finished => ResolvedByDocument)
    /\ [][pc = "build" => BuildAfterStream]_vars

\* The first start event of the in-namespace element of the tag and id.
FirstOf(tag, id) ==
    CHOOSE i \in 1..Len(doc) :
        /\ doc[i].kind = "start" /\ doc[i].ns = PLMXML_NS
        /\ doc[i].tag = tag /\ Get(doc[i].attrib, "id") = id

\* C30 witness: a finished parse resolved the root o1 named after the view,
\* its child o2 that stands before it and its revision r1 that stands
\* after it.
C30_Witness ==
    /\ Finished
    /\ DocIds("Occurrence") = {"o1", "o2"}
    /\ DocIds("ProductRevision") = {"r1"}
    /\ FirstOf("ProductView", "pv1") < FirstOf("Occurrence", "o2")
    /\ FirstOf("Occurrence", "o2") < FirstOf("Occurrence", "o1")
    /\ FirstOf("Occurrence", "o1") < FirstOf("ProductRevision", "r1")
    /\ data.productViews[1].occurrences = <<"o1">>
    /\ data.occurrences["o1"].subOccurrences = <<"o2">>
    /\ data.occurrences["o1"].name = "Part A"

---------------------------------------------------------------------------
(* C31: the context is bounded *)

\* The keys the context map can hold.
ContextKeys ==
    {"PLMXML", "Header", "Site", "ProductView", "Occurrence", "Product",
     "ProductRevision", "Form", "DataSet", "in_AttributesInContext"}

\* C31: at every point of the streaming pass, and after it, the keys of the
\* context map are among PLMXML, Header, Site, ProductView, Occurrence,
\* Product, ProductRevision, Form, DataSet and in_AttributesInContext, so
\* the map has at most ten entries however many elements are open or have
\* been read.
C31_ContextBounded ==
    /\ DOMAIN ctx \subseteq ContextKeys
    /\ Cardinality(DOMAIN ctx) <= Cardinality(ContextKeys)

\* C31 witness: the pass is inside twelve open elements, two of them
\* occurrences, and the context holds all ten keys.
C31_Witness ==
    /\ Streaming
    /\ Len(OpenAt(doc, pos - 1)) >= 12
    /\ Cardinality({i \in Open : doc[i].tag = "Occurrence"}) = 2
    /\ DOMAIN ctx = ContextKeys

---------------------------------------------------------------------------
(* C32: reference normalisation *)

\* The character of s at place i.
CharAt(s, i) == SubSeq(s, i, i)

\* A single-valued reference as stated: absent stays absent, one leading
\* marker is removed, anything else is kept.
StatedRef(raw) ==
    IF raw = None THEN None
    ELSE IF Len(raw) >= 1 /\ CharAt(raw, 1) = "#" THEN SubSeq(raw, 2, Len(raw))
    ELSE raw

\* The places of raw where a token begins: a character that is no
\* whitespace, at the beginning or after whitespace.
TokenStarts(raw) ==
    {i \in 1..Len(raw) :
        /\ CharAt(raw, i) \notin {" ", "\t", "\n"}
        /\ i = 1 \/ CharAt(raw, i - 1) \in {" ", "\t", "\n"}}

\* The token that begins at place i: up to the next whitespace or the end.
TokenAt(raw, i) ==
    LET stops == {j \in i..Len(raw) :
                     j = Len(raw) \/ CharAt(raw, j + 1) \in {" ", "\t", "\n"}}
        last == CHOOSE j \in stops : \A k \in stops : j <= k
    IN  SubSeq(raw, i, last)

RECURSIVE Ascending(_)
\* The numbers of S in ascending order.
Ascending(S) ==
    IF S = {} THEN <<>>
    ELSE LET m == CHOOSE x \in S : \A y \in S : x <= y
         IN  <<m>> \o Ascending(S \ {m})

\* A multi-valued reference as stated: the whitespace-separated tokens in
\* their order, each as a single-valued reference; the empty list for an
\* absent or empty attribute.
StatedRefList(raw) ==
    IF raw = None THEN <<>>
    ELSE LET starts == Ascending(TokenStarts(raw))
         IN  [k \in 1..Len(starts) |-> StatedRef(TokenAt(raw, starts[k]))]

\* The field of the record of every element of the tag read so far holds
\* the attribute as stated.
StoredRef(tag, attr, fld) ==
    \A id \in IdsOf(tag) :
        data[TableOf(tag)][id][fld] =
            StatedRef(Get(doc[LastOf(tag, id)].attrib, attr))

\* Likewise for a multi-valued attribute.
StoredRefList(tag, attr, fld) ==
    \A id \in IdsOf(tag) :
        data[TableOf(tag)][id][fld] =
            StatedRefList(Get(doc[LastOf(tag, id)].attrib, attr))

\* C32: every single-valued reference attribute is stored with one leading
\* '#' removed if it begins with one and as it is otherwise, an absent one
\* as absent; every multi-valued reference attribute is stored as the list
\* of its whitespace-separated tokens in their order, each with one leading
\* '#' removed, and as the empty list when it is absent or empty.
C32_ReferenceNormalisation ==
    /\ StoredRef("Occurrence", "instancedRef", "instancedRef")
    /\ StoredRef("ProductRevision", "masterRef", "masterRef")
    /\ StoredRef("AssociatedAttachment", "attachmentRef", "attachmentRef")
    /\ StoredRefList("Occurrence", "associatedAttachmentRefs", "associatedAttachmentRefs")
    /\ StoredRefList("Occurrence", "occurrenceRefs", "occurrenceRefIDs")
    /\ StoredRefList("DataSet", "memberRefs", "memberRefs")
    /\ \A k \in 1..Len(ViewStarts) :
           LET attrib == doc[ViewStarts[k]].attrib
               pv == data.productViews[k]
           IN  /\ pv.primaryOccurrenceRef = StatedRef(Get(attrib, "primaryOccurrenceRef"))
               /\ pv.rootRefs = StatedRefList(Get(attrib, "rootRefs"))
               /\ pv.ruleRefs = StatedRefList(Get(attrib, "ruleRefs"))

\* C32 witness: the streaming pass has read the attribute "#a\t#b" of
\* occurrence a: its instancedRef has lost the first marker only, and its
\* child list holds the two tokens without their markers.
C32_Witness ==
    /\ Streamed
    /\ "a" \in DOMAIN data.occurrences
    /\ data.occurrences["a"].instancedRef = "a\t#b"
    /\ data.occurrences["a"].occurrenceRefIDs = <<"a", "b">>
    /\ data.productViews[1].rootRefs = <<"a", "b">>

\* The attribute "##a " is stored as "#a " and as the list of "#a".
C32_WitnessTwoMarkers ==
    /\ Streamed
    /\ "a" \in DOMAIN data.occurrences
    /\ data.occurrences["a"].instancedRef = "#a "
    /\ data.occurrences["a"].occurrenceRefIDs = <<"#a">>

=============================================================================
